---------------------------- MODULE Spec2Model ----------------------------
(***************************************************************************)
(* Project Sentinel: the stream ingestion of data_processor.py and the     *)
(* detection cycle of event_detector.py (detectors, adaptive filtering,    *)
(* duplicate check, alert sink, customer risk profiles).                   *)
(*                                                                         *)
(* Conventions of the model                                                *)
(*   - Python None and an absent dictionary key are the string "None";     *)
(*     an absent number is NoNum.                                          *)
(*   - scores in [0,1] are integers in thousandths (0.75 is 750); prices   *)
(*     are whole LKR, so price / 1000.0 is the price in thousandths.       *)
(*   - time is in whole seconds; every datetime.now() of one detection     *)
(*     cycle reads the same instant, the variable now.                     *)
(*                                                                         *)
(* Specifications                                                          *)
(*   - SpecIngest: the ingestion thread over feeds of well-formed and      *)
(*     malformed lines.                                                    *)
(*   - SpecFilter: detect_all_events from the candidate list on, over      *)
(*     candidate lists the detectors can produce.                          *)
(*   - SpecQueueAlerts: the same over Long Queue Alerts whose severity     *)
(*     changes between cycles.                                             *)
(*   - SpecRecent: get_recent_data called with any count on the buffers    *)
(*     the feed has filled.                                                *)
(*   - Spec: the ingestion thread and the detection cycle together, the    *)
(*     detectors run over the buffers (queue buffer empty).                *)
(*   - SpecThreads: main() and its ingestion thread, interleaved step by   *)
(*     step, from start_system to stop_system.                             *)
(*   - SpecMonitoring: the monitoring loop without a maximum duration,     *)
(*     under weak fairness of the main thread.                             *)
(*   - SpecCatalog: detection cycles over records of an unknown product.   *)
(*   - SpecTimestamps: detection cycles over records without a parsable    *)
(*     timestamp.                                                          *)
(*   - SpecDemo: the scenarios of run_demo_enhanced.py, which append       *)
(*     records to the buffers and call single detectors directly.          *)
(*   - SpecStaffing: the queue scenarios of the demo with the staffing     *)
(*     detector.                                                           *)
(*   - SpecTheft: scenario 6 of the demo, the theft risk detector over     *)
(*     written customer profiles.                                          *)
(*   - SpecHealth: detection cycles over a feed that replays old records   *)
(*     and records with error statuses.                                    *)
(*   - SpecStop: connect_to_stream against stop_processing, the read of    *)
(*     is_running and the append as separate steps.                        *)
(*   - SpecHistory: the queue detector called again and again over the     *)
(*     same queue buffer, with reset_detection_state in between.           *)
(***************************************************************************)
EXTENDS Integers, Sequences, FiniteSets, TLC

VARIABLES
    \* DataProcessor
    is_running,                 \* data_processor.py:22
    rfid_data,                  \* data_processor.py:25
    pos_data,                   \* data_processor.py:26
    product_recognition_data,   \* data_processor.py:27
    queue_data,                 \* data_processor.py:28
    inventory_data,             \* data_processor.py:29 (the keys it holds)
    station_analytics,          \* data_processor.py:44
    customer_patterns,          \* data_processor.py:54 (visit_frequency)
    data_quality_score,         \* data_processor.py:65
    conn,                       \* the feed connection of connect_to_stream
    \* EventDetector
    detected_events,            \* event_detector.py:21, the alert sink
    event_counter,              \* event_detector.py:22
    customer_risk_profiles,     \* event_detector.py:41
    suppression_windows,        \* event_detector.py:82
    active_risks,               \* event_detector.py:61
    historical_patterns,        \* event_detector.py:53, per station and hour
    now,                        \* the wall clock, seconds
    \* history variables (not program state)
    lines_read,                 \* lines taken from the feed so far
    last_line,                  \* what became of the last line taken
    appended,                   \* per buffer, every record ever appended
    cycles,                     \* detection cycles run so far
    last_cycle,                 \* what the last detection cycle did
    issued,                     \* every alert id generate_event_id returned
    \* the demo harness of run_demo_enhanced.py
    demo,                       \* its position and what its last call returned
    \* the threads of main.py: the main thread and the ingestion thread
    threads,                    \* their positions and what they last read
    \* a call of get_recent_data outside a detection cycle
    recent_call                 \* its arguments and what it returned

ingest_vars == <<is_running, rfid_data, pos_data, product_recognition_data,
                 queue_data, inventory_data, station_analytics,
                 customer_patterns, data_quality_score, conn>>
detector_vars == <<detected_events, event_counter, customer_risk_profiles,
                   suppression_windows, active_risks, historical_patterns>>
history_vars == <<lines_read, last_line, appended, cycles, last_cycle,
                  issued>>
vars == <<ingest_vars, detector_vars, now, history_vars, demo, threads, recent_call>>

---------------------------------------------------------------------------
(* Bounds of the model *)

\* cap of a source buffer; the program's max_events is 100
\* (data_processor.py:208), scaled down so that overflow is reached
max_events == 2
\* lines taken from the feed in one run
MaxLines == 4
\* the clock starts late enough that "now - 0" exceeds every window, as it
\* does for a real epoch time
StartTime == 2000
\* detection cycles in one run
MaxCycles == 3
\* sensor lines a run of the detectors is fed
MaxSensorLines == 3
\* seconds of wall clock a run covers
Horizon == 660

(* Program constants *)

deque_maxlen == 200             \* deque(maxlen=200)
customer_flow_maxlen == 50      \* deque(maxlen=50)

NoNum == 0 - 1

---------------------------------------------------------------------------
(* Generic helpers *)

Min(a, b) == IF a <= b THEN a ELSE b
Max(a, b) == IF a >= b THEN a ELSE b

RECURSIVE SumNat(_)
SumNat(s) == IF s = <<>> THEN 0 ELSE Head(s) + SumNat(Tail(s))
Abs(a) == IF a >= 0 THEN a ELSE 0 - a

\* the element of a one-element set; The({ F(x) : x \in {e} }) evaluates e
\* once and hands its value to F
The(S) == CHOOSE x \in S : TRUE

\* the last n elements of s (all of s when it is shorter)
LastN(s, n) == IF Len(s) <= n THEN s ELSE SubSeq(s, Len(s) - n + 1, Len(s))

\* Python's data_list[start:] for a start <= 0: a negative start counts from
\* the end, and -0 is 0, the start of the list
SliceFrom(data_list, start) ==
    IF start < 0
    THEN SubSeq(data_list, Max(Len(data_list) + start, 0) + 1, Len(data_list))
    ELSE SubSeq(data_list, start + 1, Len(data_list))

\* EventDetector.get_recent_data: a copy of the collection is sliced
get_recent_data(data_collection, count) ==
    IF Len(data_collection) >= count
    THEN SliceFrom(data_collection, 0 - count)
    ELSE data_collection

\* collections.deque.append with maxlen: a full deque drops its left end
DequeAppend(d, x, maxlen) ==
    IF Len(d) >= maxlen THEN Append(Tail(d), x) ELSE Append(d, x)

---------------------------------------------------------------------------
(* Sensor records: the 'event' object of a feed line, flattened.  "None"   *)
(* is an absent key (what .get returns without a default) and NoNum an     *)
(* absent number.                                                          *)

Stations == {"SCC1", "RC1"}
Customers == {"C1", "C2"}

EmptyEvent ==
    [is_dict |-> TRUE, station_id |-> "None", timestamp |-> NoNum,
     status |-> "None", has_data |-> FALSE, sku |-> "None",
     customer_id |-> "None", weight |-> NoNum, price |-> NoNum,
     location |-> "None", customer_count |-> NoNum,
     average_dwell_time |-> NoNum]

\* an 'event' value that is valid JSON but not an object (a string)
NotADict == [EmptyEvent EXCEPT !.is_dict = FALSE]

RfidRec(station, sku, customer, location, ts) ==
    [EmptyEvent EXCEPT !.station_id = station, !.timestamp = ts,
                       !.has_data = TRUE, !.sku = sku,
                       !.customer_id = customer, !.location = location]

PosRec(station, sku, customer, weight, price, status, ts) ==
    [EmptyEvent EXCEPT !.station_id = station, !.timestamp = ts,
                       !.status = status, !.has_data = TRUE, !.sku = sku,
                       !.customer_id = customer, !.weight = weight,
                       !.price = price]

RecogRec(station, sku, customer, ts) ==
    [EmptyEvent EXCEPT !.station_id = station, !.timestamp = ts,
                       !.has_data = TRUE, !.sku = sku,
                       !.customer_id = customer]

QueueRec(station, count, dwell, ts) ==
    [EmptyEvent EXCEPT !.station_id = station, !.timestamp = ts,
                       !.has_data = TRUE, !.customer_count = count,
                       !.average_dwell_time = dwell]

InventoryRec(ts) == [EmptyEvent EXCEPT !.timestamp = ts, !.has_data = TRUE]

---------------------------------------------------------------------------
(* Feed lines.  text is "blank", "garbage" (not JSON) or "json"; a JSON    *)
(* value is an object or not; dataset "" is an absent 'dataset' key and    *)
(* JNull a null one; event_present says whether the 'event' key is there.  *)

JNull == "null"

Line(text, is_object, dataset, event_present, event) ==
    [text |-> text, is_object |-> is_object, dataset |-> dataset,
     event_present |-> event_present, event |-> event]

BlankLine == Line("blank", FALSE, "", FALSE, EmptyEvent)
GarbageLine == Line("garbage", FALSE, "", FALSE, EmptyEvent)
JsonArrayLine == Line("json", FALSE, "", FALSE, EmptyEvent)
JsonObject(dataset, event) == Line("json", TRUE, dataset, TRUE, event)
JsonObjectNoEvent(dataset) == Line("json", TRUE, dataset, FALSE, EmptyEvent)

\* the substring tests of process_event and update_analytics, as tables
\* over the dataset names of the model
DatasetNames == {"RFID_data", "POS_Transactions", "Product_recognition",
                 "Queue_monitor", "Current_inventory_data",
                 "RFID_POS_audit", ""}
HasRfid(d) == d \in {"RFID_data", "RFID_POS_audit"}
HasPos(d) == d \in {"POS_Transactions", "RFID_POS_audit"}
HasRecognition(d) == d \in {"Product_recognition"}
HasQueue(d) == d \in {"Queue_monitor"}
HasInventory(d) == d \in {"Current_inventory_data"}
HasUpperPOS(d) == d \in {"POS_Transactions", "RFID_POS_audit"}
HasUpperQueue(d) == d \in {"Queue_monitor"}

\* the if/elif chain of process_event
Route(dataset) ==
    IF HasRfid(dataset) THEN "rfid"
    ELSE IF HasPos(dataset) THEN "pos"
    ELSE IF HasRecognition(dataset) THEN "recognition"
    ELSE IF HasQueue(dataset) THEN "queue"
    ELSE IF HasInventory(dataset) THEN "inventory"
    ELSE "none"

BufferNames == {"rfid", "pos", "recognition", "queue"}

\* a chain of independent ifs instead of if/elif
RoutedTo_if(dataset, name) ==
    CASE name = "rfid" -> HasRfid(dataset)
      [] name = "pos" -> HasPos(dataset)
      [] name = "recognition" -> HasRecognition(dataset)
      [] name = "queue" -> HasQueue(dataset)
      [] OTHER -> FALSE

\* whether process_event appends the event to the buffer called name
RoutedTo(dataset, name) == Route(dataset) = name

\* a cap that evicts one record too early
AppendCapped_early(buf, event_data) ==
    LET a == DequeAppend(buf, event_data, deque_maxlen)
    IN  IF Len(a) >= max_events THEN Tail(a) ELSE a

\* buffer.append(event_data); if len(buffer) > max_events: buffer.popleft()
AppendCapped(buf, event_data) ==
    LET a == DequeAppend(buf, event_data, deque_maxlen)
    IN  IF Len(a) > max_events THEN Tail(a) ELSE a

Truthy(s) == s # "None" /\ s # ""

ErrorStatuses == {"Read Error", "System Crash"}

\* update_analytics: its own try/except keeps every failure inside
update_analytics(dataset, event_data) ==
    LET station_id == event_data.station_id
        st == IF Truthy(station_id) THEN station_analytics[station_id]
              ELSE [transaction_count |-> 0, total_revenue |-> 0,
                    customer_flow |-> <<>>, error_count |-> 0]
        isPos == HasUpperPOS(dataset) /\ Truthy(station_id)
        isQueue == ~isPos /\ HasUpperQueue(dataset) /\ Truthy(station_id)
        st1 == IF isPos
               THEN [st EXCEPT !.transaction_count = @ + 1,
                               !.total_revenue =
                                   IF event_data.has_data
                                      /\ event_data.price # NoNum
                                   THEN @ + event_data.price ELSE @]
               ELSE IF isQueue
               THEN [st EXCEPT !.customer_flow =
                        DequeAppend(@, IF event_data.customer_count = NoNum
                                       THEN 0 ELSE event_data.customer_count,
                                    customer_flow_maxlen)]
               ELSE st
        isErr == event_data.status \in ErrorStatuses
        st2 == IF isErr THEN [st1 EXCEPT !.error_count = @ + 1] ELSE st1
    IN  [analytics |-> IF Truthy(station_id)
                       THEN [station_analytics EXCEPT ![station_id] = st2]
                       ELSE station_analytics,
         patterns |-> IF isPos /\ Truthy(event_data.customer_id)
                      THEN [customer_patterns EXCEPT
                               ![event_data.customer_id] = @ + 1]
                      ELSE customer_patterns,
         dq |-> IF isErr THEN Max(0, data_quality_score - 1)
                ELSE data_quality_score]

\* process_event(event): the state it leaves and whether it raised.
\*   - a JSON value that is no object has no .get            (line 204)
\*   - a null dataset fails the first "'RFID' in dataset"    (line 210)
\*   - an event that is no dict is appended and then fails
\*     event_data.get in the print                           (line 236)
process_event(event) ==
    LET dataset == event.dataset
        event_data == IF event.event_present THEN event.event ELSE EmptyEvent
        route == Route(dataset)
        early == ~event.is_object \/ dataset = JNull
        late == ~early /\ ~event_data.is_dict
        buf(name, b) == IF ~early /\ RoutedTo(dataset, name)
                        THEN AppendCapped(b, event_data) ELSE b
        ua == update_analytics(dataset, event_data)
        done == ~early /\ ~late
    IN  [raised |-> early \/ late,
         route |-> IF early THEN "none" ELSE route,
         record |-> event_data,
         rfid |-> buf("rfid", rfid_data),
         pos |-> buf("pos", pos_data),
         recognition |-> buf("recognition", product_recognition_data),
         queue |-> buf("queue", queue_data),
         inventory |-> IF done /\ route = "inventory" /\ event_data.has_data
                       THEN inventory_data \cup {"snapshot"}
                       ELSE inventory_data,
         analytics |-> IF done THEN ua.analytics ELSE station_analytics,
         patterns |-> IF done THEN ua.patterns ELSE customer_patterns,
         dq |-> IF done THEN ua.dq ELSE data_quality_score]

---------------------------------------------------------------------------
(* Alerts.  One record shape for every kind; a field a kind does not carry *)
(* is "None" / NoNum.  severity "None" is an event_data without the key    *)
(* (Barcode Switching, Weight Discrepancy, Success Operation).             *)

Alert(name, station, customer, sku, severity) ==
    [event_id |-> 0, timestamp |-> 0, event_name |-> name,
     station_id |-> station, customer_id |-> customer, SKU |-> sku,
     severity |-> severity, confidence |-> NoNum, risk_factor |-> NoNum,
     risk_score |-> NoNum, price_difference |-> NoNum,
     triggers |-> {}, variance |-> NoNum, scanned_SKU |-> "None",
     rfid_detections |-> NoNum, sales_recorded |-> NoNum,
     overall_coordination_score |-> NoNum, current_queue_length |-> NoNum]

\* generate_event_id and the "timestamp" of the event literal
Stamp(alert, id, at) == [alert EXCEPT !.event_id = id, !.timestamp = at]

---------------------------------------------------------------------------
(* apply_adaptive_filtering *)

dedup_recent == 10              \* self.detected_events[-10:]
dedup_seconds == 300            \* < 300, "5 minutes"

\* event.get('event_data', {}).get('severity', 'medium')
SeverityOf(e) == IF e.severity = "None" THEN "medium" ELSE e.severity

\* the key f"{event_name}_{severity}"
CategoryOf(e) == <<e.event_name, SeverityOf(e)>>

\* {'high': 10, 'medium': 15, 'low': 30}.get(severity, 15)
suppression_minutes(severity) ==
    CASE severity = "high" -> 10
      [] severity = "medium" -> 15
      [] severity = "low" -> 30
      [] OTHER -> 15

\* the keys of event_categories, a dict: in order of first appearance
RECURSIVE CategoryOrder(_, _)
CategoryOrder(events, seen) ==
    IF events = <<>> THEN <<>>
    ELSE LET c == CategoryOf(Head(events))
         IN  IF c \in seen THEN CategoryOrder(Tail(events), seen)
             ELSE <<c>> \o CategoryOrder(Tail(events), seen \cup {c})

\* event_categories[category]
CategoryEvents(events, c) == SelectSeq(events, LAMBDA e : CategoryOf(e) = c)

\* suppression_windows.get(suppression_key, 0)
LastAlertTime(windows, c) == IF c \in DOMAIN windows THEN windows[c] ELSE 0

\* the test that lets a non-critical category through
WindowElapsed(at, last_alert_time, severity) ==
    (at - last_alert_time) > suppression_minutes(severity) * 60

SetWindow(windows, c, at) ==
    [k \in DOMAIN windows \cup {c} |-> IF k = c THEN at ELSE windows[k]]

\* a loop that lets every candidate of every category through
FilterCategories_all(order, events, at, windows, filtered) ==
    [filtered |-> filtered \o events, windows |-> windows]

\* the loop over event_categories.items()
RECURSIVE FilterCategories(_, _, _, _, _)
FilterCategories(order, events, at, windows, filtered) ==
    IF order = <<>> THEN [filtered |-> filtered, windows |-> windows]
    ELSE The({
        LET c == Head(order)
            category_events == CategoryEvents(events, c)
        IN  IF c[2] = "critical"
            THEN FilterCategories(Tail(order), events, at, w,
                                  f \o category_events)
            ELSE IF WindowElapsed(at, LastAlertTime(w, c), c[2])
            THEN FilterCategories(Tail(order), events, at,
                                  SetWindow(w, c, at),
                                  Append(f, category_events[1]))
            ELSE FilterCategories(Tail(order), events, at, w, f)
        : w \in {windows}, f \in {filtered} })

apply_adaptive_filtering(events, at, windows) ==
    IF events = <<>> THEN [filtered |-> events, windows |-> windows]
    ELSE FilterCategories(CategoryOrder(events, {}), events, at, windows,
                          <<>>)

---------------------------------------------------------------------------
(* is_duplicate_event and the history loop of detect_all_events *)

SameIdentity(new_event, existing_event) ==
    /\ new_event.event_name = existing_event.event_name
    /\ new_event.station_id = existing_event.station_id

is_duplicate_event(new_event, sink) ==
    /\ sink # <<>>
    /\ LET recent_events == LastN(sink, dedup_recent)
       IN  \E i \in 1..Len(recent_events) :
               /\ SameIdentity(new_event, recent_events[i])
               /\ new_event.timestamp - recent_events[i].timestamp
                      < dedup_seconds

\* a history loop over a sink that holds the ten most recent alerts only
RECURSIVE AddToHistory_recent(_, _)
AddToHistory_recent(filtered, sink) ==
    IF filtered = <<>> THEN sink
    ELSE The({ AddToHistory_recent(
                   Tail(filtered),
                   IF is_duplicate_event(Head(filtered), h) THEN h
                   ELSE LastN(Append(h, Head(filtered)), dedup_recent))
                   : h \in {sink} })

\* for event in filtered_events: if not duplicate: detected_events.append
RECURSIVE AddToHistory(_, _)
AddToHistory(filtered, sink) ==
    IF filtered = <<>> THEN sink
    ELSE The({ AddToHistory(Tail(filtered),
                            IF is_duplicate_event(Head(filtered), h) THEN h
                            ELSE Append(h, Head(filtered)))
                   : h \in {sink} })

---------------------------------------------------------------------------
(* State after construction: DataProcessor.__init__, EventDetector.__init__ *)

ProfileKeys == Customers \cup {"None"}

\* the value of the defaultdict factory of customer_risk_profiles
NewProfile == [present |-> TRUE, risk_score |-> 0, anomaly_count |-> 0]
NoProfile == [present |-> FALSE, risk_score |-> 0, anomaly_count |-> 0]

NoCycle ==
    [at |-> 0, raised |-> FALSE, all_events |-> <<>>,
     filtered_events |-> <<>>, appended_events |-> <<>>,
     profiles_before |-> [c \in ProfileKeys |-> NoProfile]]

\* queue_forecast_model['historical_patterns'], a defaultdict(list) keyed
\* by f"{station_id}_{hour}": no key yet
NoPatterns == [k \in {} |-> <<>>]

\* the demo harness before its first scenario
NoDemo == [pc |-> 0, runs |-> 0, detector |-> 0, events |-> <<>>,
           raised |-> FALSE]

\* the buffers a detector or a status call reads
Buffers ==
    [rfid |-> rfid_data, pos |-> pos_data,
     recognition |-> product_recognition_data, queue |-> queue_data]

\* before any call of get_recent_data outside a detection cycle
NoRecent ==
    [called |-> FALSE, buffer |-> "pos", data_collection |-> <<>>,
     count |-> 0, result |-> <<>>]

\* main() before start_system; the ingestion thread not yet started
NoThreads ==
    [pc |-> "init", k |-> 0, events |-> <<>>, raised |-> FALSE,
     snapshot |-> [b \in BufferNames |-> <<>>],
     in_flight |-> FALSE, checked |-> FALSE, line |-> BlankLine,
     iteration |-> 0,
     status |-> [b \in BufferNames |-> 0],
     export |-> [written |-> FALSE, events |-> <<>>]]

Init ==
    /\ is_running = FALSE
    /\ rfid_data = <<>>
    /\ pos_data = <<>>
    /\ product_recognition_data = <<>>
    /\ queue_data = <<>>
    /\ inventory_data = {}
    /\ station_analytics =
           [s \in Stations |-> [transaction_count |-> 0, total_revenue |-> 0,
                                customer_flow |-> <<>>, error_count |-> 0]]
    /\ customer_patterns = [c \in Customers |-> 0]
    /\ data_quality_score = 100
    /\ conn = "idle"
    /\ detected_events = <<>>
    /\ event_counter = 1
    /\ customer_risk_profiles = [c \in ProfileKeys |-> NoProfile]
    /\ suppression_windows = [k \in {} |-> 0]
    /\ active_risks = {}
    /\ historical_patterns = NoPatterns
    /\ now = StartTime
    /\ lines_read = 0
    /\ last_line = [line |-> BlankLine, outcome |-> "none"]
    /\ appended = [b \in BufferNames |-> <<>>]
    /\ cycles = 0
    /\ last_cycle = NoCycle
    /\ issued = {}
    /\ demo = NoDemo
    /\ threads = NoThreads
    /\ recent_call = NoRecent

---------------------------------------------------------------------------
(* Ingestion: start_processing, connect_to_stream, stop_processing *)

start_processing ==
    /\ conn = "idle"
    /\ is_running' = TRUE
    /\ conn' = "open"
    /\ UNCHANGED <<rfid_data, pos_data, product_recognition_data, queue_data,
                   inventory_data, station_analytics, customer_patterns,
                   data_quality_score>>
    /\ UNCHANGED <<detector_vars, now, history_vars, demo, threads, recent_call>>

stop_processing ==
    /\ is_running' = FALSE
    /\ UNCHANGED <<rfid_data, pos_data, product_recognition_data, queue_data,
                   inventory_data, station_analytics, customer_patterns,
                   data_quality_score, conn>>
    /\ UNCHANGED <<detector_vars, now, history_vars, demo, threads, recent_call>>

\* One iteration of "for line in stream" in connect_to_stream.  Only
\* json.JSONDecodeError is caught inside the loop; any other exception
\* of process_event leaves the loop through the outer handlers and the
\* connection is closed.
StreamLine(line) ==
    /\ conn = "open"
    /\ lines_read < MaxLines
    /\ lines_read' = lines_read + 1
    /\ UNCHANGED <<is_running, detector_vars, now, cycles, last_cycle, issued,
                   demo, threads, recent_call>>
    /\ IF ~is_running
       THEN /\ conn' = "closed"
            /\ last_line' = [line |-> line, outcome |-> "not_running"]
            /\ UNCHANGED <<rfid_data, pos_data, product_recognition_data,
                           queue_data, inventory_data, station_analytics,
                           customer_patterns, data_quality_score, appended>>
       ELSE IF line.text # "json"
       THEN /\ last_line' = [line |-> line, outcome |-> "skipped"]
            /\ UNCHANGED <<rfid_data, pos_data, product_recognition_data,
                           queue_data, inventory_data, station_analytics,
                           customer_patterns, data_quality_score, conn,
                           appended>>
       ELSE LET r == process_event(line)
            IN  /\ rfid_data' = r.rfid
                /\ pos_data' = r.pos
                /\ product_recognition_data' = r.recognition
                /\ queue_data' = r.queue
                /\ inventory_data' = r.inventory
                /\ station_analytics' = r.analytics
                /\ customer_patterns' = r.patterns
                /\ data_quality_score' = r.dq
                /\ conn' = IF r.raised THEN "closed" ELSE conn
                /\ last_line' = [line |-> line,
                                 outcome |-> IF r.raised THEN "raised"
                                             ELSE "processed"]
                /\ appended' = IF r.route \in BufferNames
                               THEN [appended EXCEPT
                                        ![r.route] = Append(@, r.record)]
                               ELSE appended

\* the server closes the feed: the for loop ends, is_running stays as it is
StreamEnd ==
    /\ conn = "open"
    /\ conn' = "closed"
    /\ UNCHANGED <<is_running, rfid_data, pos_data, product_recognition_data,
                   queue_data, inventory_data, station_analytics,
                   customer_patterns, data_quality_score>>
    /\ UNCHANGED <<detector_vars, now, history_vars, demo, threads, recent_call>>

\* the lines the feed may deliver as its next line, stamped ts
FeedLines(ts) ==
    { BlankLine, GarbageLine, JsonArrayLine,
      JsonObjectNoEvent(""), JsonObjectNoEvent(JNull),
      JsonObjectNoEvent("POS_Transactions"),
      JsonObject("RFID_data", NotADict),
      JsonObject("RFID_data", RfidRec("SCC1", "A", "C1", "IN_SCAN_AREA", ts)),
      JsonObject("POS_Transactions",
                 PosRec("SCC1", "A", "C1", 100, 120, "Active", ts)),
      JsonObject("RFID_POS_audit",
                 PosRec("RC1", "B", "C2", 200, 2500, "Read Error", ts)),
      JsonObject("Product_recognition", RecogRec("SCC1", "B", "C1", ts)),
      JsonObject("Queue_monitor", QueueRec("RC1", 8, 450, ts)),
      JsonObject("Current_inventory_data", InventoryRec(ts)) }

FeedLine == \E line \in FeedLines(lines_read + 1) : StreamLine(line)

NextIngest ==
    \/ start_processing
    \/ FeedLine
    \/ StreamEnd
    \/ stop_processing

SpecIngest == Init /\ [][NextIngest]_vars

---------------------------------------------------------------------------
(* The catalog, products_db: read-only after load_reference_data.  The     *)
(* name of a product enters the detectors only through the substring tests *)
(* "premium", "basic", "package"/"bulk", kept here as flags.               *)

CatalogSKUs == {"A", "B", "C"}

products_db ==
    [sku \in CatalogSKUs |->
        CASE sku = "A" ->   \* "Premium Tea"
                 [category |-> "Grocery", price |-> 120, weight |-> 100,
                  quantity |-> 50, premium |-> TRUE, basic |-> FALSE,
                  package |-> FALSE]
          [] sku = "B" ->   \* "Basic Bulk Rice"
                 [category |-> "Grocery", price |-> 2500, weight |-> 200,
                  quantity |-> 50, premium |-> FALSE, basic |-> TRUE,
                  package |-> TRUE]
          [] sku = "C" ->   \* "Apples"
                 [category |-> "Produce", price |-> 600, weight |-> 100,
                  quantity |-> 50, premium |-> FALSE, basic |-> FALSE,
                  package |-> FALSE]]

\* float(products_db.get(sku, {}).get('price', 0))
PriceOf(sku) == IF sku \in CatalogSKUs THEN products_db[sku].price ELSE 0

\* station_id.startswith('SCC'), for a station_id that is a string
SCCStations == {"SCC1"}
StartsWithSCC(station_id) == station_id \in SCCStations

---------------------------------------------------------------------------
(* detection_thresholds and the customer risk profiles *)

scan_avoidance_confidence == 750    \* 0.75
weight_tolerance == 150             \* 0.15
theft_risk_threshold == 700         \* 0.7

\* self.customer_risk_profiles[customer_id]: a defaultdict access creates
\* the profile
Touch(profiles, c) ==
    IF profiles[c].present THEN profiles
    ELSE [profiles EXCEPT ![c] = NewProfile]

\* profile['risk_score'] = min(1.0, profile['risk_score'] + delta)
RaiseRisk(profiles, c, delta) ==
    [Touch(profiles, c) EXCEPT ![c].risk_score = Min(1000, @ + delta)]

(* The state a detector run threads through the detectors of one cycle:   *)
(* the candidates so far, the profiles, the id counter, the active risks  *)
(* and whether an exception is propagating.                               *)
StartRun ==
    [events |-> <<>>, profiles |-> customer_risk_profiles,
     counter |-> event_counter, active |-> active_risks,
     patterns |-> historical_patterns, raised |-> FALSE]

Emit(ds, alert) ==
    [ds EXCEPT !.events = Append(@, Stamp(alert, ds.counter, now)),
               !.counter = @ + 1]

---------------------------------------------------------------------------
(* detect_scan_avoidance *)

\* calculate_confidence_score over the four factors, times 4 (the sum of
\* the factors clamped to [0, 4000]): confidence >= 0.75 is sum >= 3000
ConfidenceSum(value_factor, risk_factor, station_factor, time_factor) ==
    Min(4000, Max(0, value_factor + risk_factor + station_factor
                         + time_factor))

\* the customer risk factor of the confidence: the stored risk_score, or
\* 0.3 for a customer not in customer_risk_profiles
ScanRiskFactor(profiles, customer_id) ==
    IF profiles[customer_id].present THEN profiles[customer_id].risk_score
    ELSE 300

ScanAreaEvents(rfid) == SelectSeq(rfid, LAMBDA r : r.location = "IN_SCAN_AREA")

ScanStep(ds, scan_event, pos) ==
    LET station_id == scan_event.station_id
        sku == scan_event.sku
        customer_id == scan_event.customer_id
        found_transaction ==
            \E i \in 1..Len(pos) :
                /\ pos[i].station_id = station_id
                /\ pos[i].customer_id = customer_id
                /\ pos[i].sku = sku
        product_price == PriceOf(sku)
        value_factor == Min(1000, 2 * product_price)
        risk_factor == ScanRiskFactor(ds.profiles, customer_id)
        station_factor == IF StartsWithSCC(station_id) THEN 800 ELSE 500
        sum == ConfidenceSum(value_factor, risk_factor, station_factor, 700)
        alert == [Alert("Scanner Avoidance", station_id, customer_id, sku,
                        IF sum > 3600 THEN "high" ELSE "medium")
                      EXCEPT !.confidence = sum \div 4,
                             !.risk_factor = risk_factor]
        bumped == RaiseRisk(ds.profiles, customer_id, 200)
    IN  IF ds.raised \/ found_transaction \/ ~Truthy(sku) THEN ds
        ELSE IF station_id = "None"
        THEN [ds EXCEPT !.raised = TRUE]    \* None has no startswith
        ELSE IF sum >= 4 * scan_avoidance_confidence
        THEN [Emit(ds, alert) EXCEPT
                 !.profiles = [bumped EXCEPT
                                  ![customer_id].anomaly_count = @ + 1]]
        ELSE ds

RECURSIVE ScanLoop(_, _, _)
ScanLoop(ds, scan_area_events, pos) ==
    IF scan_area_events = <<>> THEN ds
    ELSE The({ ScanLoop(ScanStep(d, Head(scan_area_events), pos),
                        Tail(scan_area_events), pos) : d \in {ds} })

detect_scan_avoidance(ds) ==
    IF ds.raised THEN ds
    ELSE ScanLoop(ds, ScanAreaEvents(LastN(rfid_data, 50)),
                  LastN(pos_data, 50))

---------------------------------------------------------------------------
(* detect_barcode_switching *)

\* the triggers without the price-gap test
DetectionTriggers_nogap(recognized_sku, scanned_sku) ==
    LET recognized == products_db[recognized_sku]
        scanned == products_db[scanned_sku]
        price_difference == recognized.price - scanned.price
    IN  (IF recognized.category # scanned.category
            /\ price_difference > 100
         THEN {"category_price_mismatch"} ELSE {})
        \cup (IF recognized.premium /\ scanned.basic
              THEN {"premium_to_basic_switch"} ELSE {})

DetectionTriggers(recognized_sku, scanned_sku) ==
    LET recognized == products_db[recognized_sku]
        scanned == products_db[scanned_sku]
        price_difference == recognized.price - scanned.price
        \* price_ratio > 2.0, the ratio being inf for a scanned price of 0
        ratio_over_2 == IF scanned.price > 0
                        THEN recognized.price > 2 * scanned.price
                        ELSE TRUE
    IN  (IF price_difference > 200 /\ ratio_over_2
         THEN {"major_price_gap"} ELSE {})
        \cup (IF recognized.category # scanned.category
                 /\ price_difference > 100
              THEN {"category_price_mismatch"} ELSE {})
        \cup (IF recognized.premium /\ scanned.basic
              THEN {"premium_to_basic_switch"} ELSE {})

\* min(1.0, price_difference / 1000.0 + (0.3 if len(triggers) > 1 else 0.1))
SwitchRiskScore(price_difference, triggers) ==
    Min(1000, price_difference
                  + (IF Cardinality(triggers) > 1 THEN 300 ELSE 100))

SwitchStep(ds, recognition_event, pos_event) ==
    LET recognized_sku == recognition_event.sku
        station_id == recognition_event.station_id
        customer_id == recognition_event.customer_id
        scanned_sku == pos_event.sku
        applies == /\ Truthy(recognized_sku)
                   /\ recognized_sku \in CatalogSKUs
                   /\ pos_event.station_id = station_id
                   /\ pos_event.customer_id = customer_id
                   /\ Truthy(scanned_sku)
                   /\ scanned_sku \in CatalogSKUs
    IN  IF ds.raised \/ ~applies THEN ds
        ELSE
        LET price_difference == products_db[recognized_sku].price
                                    - products_db[scanned_sku].price
            triggers == DetectionTriggers(recognized_sku, scanned_sku)
            risk_score == SwitchRiskScore(price_difference, triggers)
            alert == [Alert("Barcode Switching", station_id, customer_id,
                            recognized_sku, "None")
                          EXCEPT !.risk_score = risk_score,
                                 !.price_difference = price_difference,
                                 !.triggers = triggers,
                                 !.scanned_SKU = scanned_sku]
        IN  IF triggers = {} THEN ds
            ELSE IF Truthy(customer_id)
            THEN [Emit(ds, alert) EXCEPT
                     !.profiles = RaiseRisk(ds.profiles, customer_id,
                                            risk_score)]
            ELSE Emit(ds, alert)

RECURSIVE SwitchInner(_, _, _)
SwitchInner(ds, recognition_event, pos) ==
    IF pos = <<>> THEN ds
    ELSE The({ SwitchInner(SwitchStep(d, recognition_event, Head(pos)),
                           recognition_event, Tail(pos)) : d \in {ds} })

RECURSIVE SwitchLoop(_, _, _)
SwitchLoop(ds, recognition_data, pos) ==
    IF recognition_data = <<>> THEN ds
    ELSE The({ SwitchLoop(SwitchInner(d, Head(recognition_data), pos),
                          Tail(recognition_data), pos) : d \in {ds} })

detect_barcode_switching(ds) ==
    IF ds.raised THEN ds
    ELSE SwitchLoop(ds, LastN(product_recognition_data, 30),
                    LastN(pos_data, 30))

---------------------------------------------------------------------------
(* detect_weight_discrepancies *)

\* the category-dependent tolerance, in thousandths
WeightTolerance(product_info) ==
    IF product_info.category \in {"Produce", "Bakery", "Deli"} THEN 250
    ELSE IF product_info.package THEN 200
    ELSE weight_tolerance

\* abs(actual_weight - expected_weight) / expected_weight, in thousandths;
\* exact for the weights of the model (expected weights divide 1000 * diff)
WeightDifference(actual_weight, expected_weight) ==
    (Abs(actual_weight - expected_weight) * 1000) \div expected_weight

\* pos_event.get('data', {}).get('weight', 0)
ActualWeight(pos_event) ==
    IF pos_event.weight = NoNum THEN 0 ELSE pos_event.weight

\* whether the detector looks at a POS record at all
WeightChecked(pos_event) ==
    /\ StartsWithSCC(pos_event.station_id)     \* "Self-checkout stations"
    /\ pos_event.sku \in CatalogSKUs
    /\ products_db[pos_event.sku].weight > 0

WeightFires(pos_event) ==
    /\ WeightChecked(pos_event)
    /\ WeightDifference(ActualWeight(pos_event),
                        products_db[pos_event.sku].weight)
           > WeightTolerance(products_db[pos_event.sku])

WeightStep(ds, pos_event) ==
    IF ds.raised \/ ~WeightFires(pos_event) THEN ds
    ELSE
    LET product_info == products_db[pos_event.sku]
        customer_id == pos_event.customer_id
        weight_difference ==
            WeightDifference(ActualWeight(pos_event), product_info.weight)
        alert == [Alert("Weight Discrepancy", pos_event.station_id,
                        customer_id, pos_event.sku, "None")
                      EXCEPT !.variance = weight_difference]
    IN  IF Truthy(customer_id)
        THEN [Emit(ds, alert) EXCEPT
                 !.profiles = RaiseRisk(ds.profiles, customer_id,
                                        Min(300, weight_difference))]
        ELSE Emit(ds, alert)

RECURSIVE WeightLoop(_, _)
WeightLoop(ds, pos) ==
    IF pos = <<>> THEN ds
    ELSE The({ WeightLoop(WeightStep(d, Head(pos)), Tail(pos)) : d \in {ds} })

\* a detector that indexes products_db without the "in" test
detect_weight_discrepancies_keyerror(ds) ==
    IF ds.raised THEN ds
    ELSE IF \E i \in 1..Len(LastN(pos_data, 20)) :
                /\ StartsWithSCC(LastN(pos_data, 20)[i].station_id)
                /\ LastN(pos_data, 20)[i].sku \notin CatalogSKUs
    THEN [ds EXCEPT !.raised = TRUE]
    ELSE WeightLoop(ds, LastN(pos_data, 20))

detect_weight_discrepancies(ds) ==
    IF ds.raised THEN ds ELSE WeightLoop(ds, LastN(pos_data, 20))

---------------------------------------------------------------------------
(* detect_system_crashes *)

\* the keys of a dict filled in a loop: distinct values in order of first
\* appearance
RECURSIVE DistinctSeq(_, _)
DistinctSeq(s, seen) ==
    IF s = <<>> THEN <<>>
    ELSE IF Head(s) \in seen THEN DistinctSeq(Tail(s), seen)
    ELSE <<Head(s)>> \o DistinctSeq(Tail(s), seen \cup {Head(s)})

StationsOf(records) ==
    DistinctSeq([i \in 1..Len(records) |-> records[i].station_id], {})

\* pos_event.get('status', 'Active') != 'Active'
NotActive(pos_event) == pos_event.status \notin {"Active", "None"}

\* station_health[station_id]['last_transaction']: the last parsable
\* timestamp of the station, NoNum when there is none
LastTransaction(records) ==
    LET timed == SelectSeq(records, LAMBDA r : r.timestamp # NoNum)
    IN  IF timed = <<>> THEN NoNum ELSE timed[Len(timed)].timestamp

\* a loop body with "if" where the code has "elif"
CrashStep_both(ds, station_id, pos) ==
    LET records == SelectSeq(pos, LAMBDA r : r.station_id = station_id)
        last_transaction == LastTransaction(records)
        crashed ==
            IF now - last_transaction > 600
            THEN Emit(ds, Alert("System Crash", station_id, "None", "None",
                                IF now - last_transaction > 1800
                                THEN "critical" ELSE "high"))
            ELSE ds
    IN  IF ds.raised \/ last_transaction = NoNum THEN ds
        ELSE IF 10 * Len(SelectSeq(records, NotActive)) > 3 * Max(1, Len(records))
        THEN Emit(crashed, Alert("System Performance Degradation",
                                 station_id, "None", "None", "medium"))
        ELSE crashed

CrashStep(ds, station_id, pos) ==
    LET records == SelectSeq(pos, LAMBDA r : r.station_id = station_id)
        transaction_count == Len(records)
        error_count == Len(SelectSeq(records, NotActive))
        last_transaction == LastTransaction(records)
        downtime == now - last_transaction
    IN  IF ds.raised \/ last_transaction = NoNum THEN ds
        ELSE IF downtime > 600
        THEN IF station_id = "None"
             \* the id is drawn, then calculate_downtime_impact(None, ..)
             \* fails on None.startswith
             THEN [ds EXCEPT !.counter = @ + 1, !.raised = TRUE]
             ELSE Emit(ds, Alert("System Crash", station_id, "None", "None",
                                 IF downtime > 1800 THEN "critical"
                                 ELSE "high"))
        ELSE IF 10 * error_count > 3 * Max(1, transaction_count)
        THEN Emit(ds, Alert("System Performance Degradation", station_id,
                            "None", "None", "medium"))
        ELSE ds

RECURSIVE CrashLoop(_, _, _)
CrashLoop(ds, stations, pos) ==
    IF stations = <<>> THEN ds
    ELSE The({ CrashLoop(CrashStep(d, Head(stations), pos), Tail(stations),
                         pos) : d \in {ds} })

detect_system_crashes(ds) ==
    IF ds.raised THEN ds
    ELSE LET pos == LastN(pos_data, 50)
         IN  CrashLoop(ds, StationsOf(pos), pos)

---------------------------------------------------------------------------
(* detect_theft_risk_patterns and calculate_comprehensive_risk_factors *)

\* .get('data', {}).get('price', 0)
PriceIn(record) == IF record.price = NoNum THEN 0 ELSE record.price

RECURSIVE SumPrices(_)
SumPrices(records) ==
    IF records = <<>> THEN 0
    ELSE PriceIn(Head(records)) + SumPrices(Tail(records))

\* overall_risk times 150000:
\*   0.25 * min(1, n/15) + 0.30 * min(1, value/5000)
\*     + 0.20 * min(1, stations/5) + 0.25 * min(1, anomalies/10)
\* each term counted only past its own gate
\* the weighted sum without the min(1.0, ..) of the factors
OverallRisk_unclamped(profile, recent_transactions) ==
    LET transaction_count == Len(recent_transactions)
        total_value == SumPrices(recent_transactions)
        unique_stations ==
            Cardinality({ recent_transactions[i].station_id :
                              i \in 1..Len(recent_transactions) })
    IN  (IF transaction_count > 10 THEN 2500 * transaction_count ELSE 0)
        + (IF total_value > 2000 THEN 9 * total_value ELSE 0)
        + (IF unique_stations > 2 THEN 6000 * unique_stations ELSE 0)
        + (IF profile.anomaly_count > 0
           THEN 3750 * profile.anomaly_count ELSE 0)

OverallRisk(profile, recent_transactions) ==
    LET transaction_count == Len(recent_transactions)
        total_value == SumPrices(recent_transactions)
        unique_stations ==
            Cardinality({ recent_transactions[i].station_id :
                              i \in 1..Len(recent_transactions) })
    IN  (IF transaction_count > 10
         THEN 2500 * Min(15, transaction_count) ELSE 0)
        + (IF total_value > 2000 THEN 9 * Min(5000, total_value) ELSE 0)
        + (IF unique_stations > 2 THEN 6000 * Min(5, unique_stations) ELSE 0)
        + (IF profile.anomaly_count > 0
           THEN 3750 * Min(10, profile.anomaly_count) ELSE 0)

TheftStep(ds, customer_id) ==
    LET profile == ds.profiles[customer_id]
        recent_pos == SelectSeq(LastN(pos_data, 30),
                                LAMBDA r : r.customer_id = customer_id)
    IN  IF \/ ds.raised
           \/ ~profile.present
           \/ ~(profile.risk_score > theft_risk_threshold)
           \/ recent_pos = <<>>
        THEN ds
        ELSE IF OverallRisk(profile, recent_pos) > 120000    \* > 0.8
        THEN [Emit(ds, [Alert("High Theft Risk Alert", "None", customer_id,
                              "None", "critical")
                           EXCEPT !.risk_score = profile.risk_score])
                 EXCEPT !.active = @ \cup {customer_id}]
        ELSE ds

\* customer_risk_profiles.items(); the model visits the profiles in this
\* fixed order
ProfileOrder == <<"C1", "C2", "None">>

RECURSIVE TheftLoop(_, _)
TheftLoop(ds, customers) ==
    IF customers = <<>> THEN ds
    ELSE The({ TheftLoop(TheftStep(d, Head(customers)), Tail(customers))
                   : d \in {ds} })

detect_theft_risk_patterns(ds) ==
    IF ds.raised THEN ds ELSE TheftLoop(ds, ProfileOrder)

---------------------------------------------------------------------------
(* detect_inventory_discrepancies_enhanced *)

SkusOf(records) ==
    LET with_sku == SelectSeq(records, LAMBDA r : Truthy(r.sku))
    IN  [i \in 1..Len(with_sku) |-> with_sku[i].sku]

InventoryStep(ds, sku, pos, rfid) ==
    IF ds.raised \/ sku \notin CatalogSKUs THEN ds
    ELSE
    LET product_info == products_db[sku]
        sales_count == Len(SelectSeq(pos, LAMBDA r : r.sku = sku))
        rfid_detections == Len(SelectSeq(rfid, LAMBDA r : r.sku = sku))
        expected_remaining == product_info.quantity - sales_count
        excess == rfid_detections > sales_count + 2
        volume == product_info.price > 500 /\ sales_count > 5
        negative == expected_remaining < 0
        risk_score == (IF excess THEN 400 ELSE 0)
                      + (IF volume THEN 300 ELSE 0)
                      + (IF negative THEN 500 ELSE 0)
    IN  IF excess \/ volume \/ negative
        THEN Emit(ds, [Alert("Advanced Inventory Discrepancy", "None",
                             "None", sku,
                             IF risk_score > 800 THEN "high" ELSE "medium")
                          EXCEPT !.risk_score = risk_score,
                                 !.rfid_detections = rfid_detections,
                                 !.sales_recorded = sales_count])
        ELSE ds

RECURSIVE InventoryLoop(_, _, _, _)
InventoryLoop(ds, skus, pos, rfid) ==
    IF skus = <<>> THEN ds
    ELSE The({ InventoryLoop(InventoryStep(d, Head(skus), pos, rfid),
                             Tail(skus), pos, rfid) : d \in {ds} })

detect_inventory_discrepancies_enhanced(ds) ==
    IF ds.raised THEN ds
    ELSE LET pos == LastN(pos_data, 100)
             rfid == LastN(rfid_data, 100)
         IN  InventoryLoop(ds, DistinctSeq(SkusOf(pos) \o SkusOf(rfid), {}),
                           pos, rfid)

---------------------------------------------------------------------------
(* detect_multi_station_coordinated_fraud and calculate_coordination_score *)

coordinated_activity_threshold == 3

\* overall_score in thousandths
CoordinationScore(records) ==
    LET stations == { records[i].station_id : i \in 1..Len(records) }
        at_station(st) == SelectSeq(records, LAMBDA r : r.station_id = st)
        concentrated == { st \in stations : SumPrices(at_station(st)) > 2000 }
        high_value_count == Len(SelectSeq(records, LAMBDA r : PriceIn(r) > 500))
        error_count == Len(SelectSeq(records, NotActive))
        customer_overlap ==
            { records[i].customer_id : i \in 1..Len(records) } \ {"None", ""}
        indicators ==
            Cardinality(concentrated)
            + (IF high_value_count >= 5 THEN 1 ELSE 0)
            + (IF error_count >= 3 THEN 1 ELSE 0)
            + (IF Cardinality(customer_overlap) < Cardinality(stations) * 2
               THEN 1 ELSE 0)
        value_factor == Min(1000, SumPrices(records) \div 10)
    IN  Min(1000, indicators * 250 + value_factor)

MultiStep(ds, time_bucket, pos) ==
    LET records == SelectSeq(pos, LAMBDA r : /\ r.timestamp # NoNum
                                             /\ r.timestamp \div 300
                                                    = time_bucket)
        stations == { records[i].station_id : i \in 1..Len(records) }
    IN  IF ds.raised \/ Cardinality(stations) < 3 THEN ds
        ELSE IF CoordinationScore(records)
                    > coordinated_activity_threshold * 1000
        THEN Emit(ds, [Alert("Coordinated Multi-Station Fraud", "None",
                             "None", "None", "critical")
                          EXCEPT !.overall_coordination_score =
                                     CoordinationScore(records)])
        ELSE ds

RECURSIVE MultiLoop(_, _, _)
MultiLoop(ds, buckets, pos) ==
    IF buckets = <<>> THEN ds
    ELSE The({ MultiLoop(MultiStep(d, Head(buckets), pos), Tail(buckets),
                         pos) : d \in {ds} })

detect_multi_station_coordinated_fraud(ds) ==
    IF ds.raised THEN ds
    ELSE LET pos == LastN(pos_data, 60)
             timed == SelectSeq(pos, LAMBDA r : r.timestamp # NoNum)
         IN  MultiLoop(ds,
                       DistinctSeq([i \in 1..Len(timed) |->
                                       timed[i].timestamp \div 300], {}),
                       pos)

---------------------------------------------------------------------------
(* detect_long_queues_and_forecast, predict_queue_peak *)

queue_length_alert == 4

\* event_time.hour, for a time in seconds
HourOf(t) == (t \div 3600) % 24

\* .get('data', {}).get('customer_count', 0)
CustomerCount(queue_event) ==
    IF queue_event.customer_count = NoNum THEN 0
    ELSE queue_event.customer_count

\* historical_patterns.get(pattern_key, [])
PatternOf(patterns, key) ==
    IF key \in DOMAIN patterns THEN patterns[key] ELSE <<>>

\* historical_patterns[f"{station_id}_{hour}"].append(customer_count)
AddPattern(patterns, key, customer_count) ==
    [k \in DOMAIN patterns \cup {key} |->
        IF k = key THEN Append(PatternOf(patterns, key), customer_count)
        ELSE patterns[k]]

\* the first loop: a sample whose timestamp does not parse is skipped
RECURSIVE UpdatePatterns(_, _)
UpdatePatterns(patterns, queue) ==
    IF queue = <<>> THEN patterns
    ELSE The({ UpdatePatterns(
                   IF Head(queue).timestamp = NoNum THEN p
                   ELSE AddPattern(p, <<Head(queue).station_id,
                                        HourOf(Head(queue).timestamp)>>,
                                   CustomerCount(Head(queue))),
                   Tail(queue)) : p \in {patterns} })

\* int(np.percentile(historical_data, 90)): linear interpolation between
\* the neighbours of position 0.9 * (n - 1) of the sorted data, truncated
Percentile90(historical_data) ==
    LET sorted == SortSeq(historical_data, LAMBDA a, b : a < b)
        n == Len(sorted)
        lo == (9 * (n - 1)) \div 10 + 1
        hi == Min(lo + 1, n)
        tenths == (9 * (n - 1)) % 10
    IN  (10 * sorted[lo] + tenths * (sorted[hi] - sorted[lo])) \div 10

\* peak_hours.get(current_hour, 5)
PeakHours(hour) ==
    CASE hour = 9 -> 6 [] hour = 10 -> 8 [] hour = 11 -> 7 [] hour = 12 -> 9
      [] hour = 13 -> 10 [] hour = 17 -> 8 [] hour = 18 -> 9 [] hour = 19 -> 7
      [] OTHER -> 5

predict_queue_peak(patterns, station_id, current_hour) ==
    LET historical_data == PatternOf(patterns, <<station_id, current_hour>>)
    IN  IF Len(historical_data) >= 3 THEN Percentile90(historical_data)
        ELSE PeakHours(current_hour)

\* a reading of current_queues that keeps a station's first sample
CurrentLength_first(recent, station_id) ==
    LET samples == SelectSeq(recent, LAMBDA q : q.station_id = station_id)
    IN  CustomerCount(samples[1])

\* current_queues[station_id]['current_length']: the dict entry is
\* overwritten by every sample of the station, the last one stays
CurrentLength(recent, station_id) ==
    LET samples == SelectSeq(recent, LAMBDA q : q.station_id = station_id)
    IN  CustomerCount(samples[Len(samples)])

RECURSIVE SumCounts(_)
SumCounts(recent) ==
    IF recent = <<>> THEN 0
    ELSE CustomerCount(Head(recent)) + SumCounts(Tail(recent))

QueueStep(ds, station_id, recent, current_hour) ==
    LET current_length == CurrentLength(recent, station_id)
        predicted_peak ==
            predict_queue_peak(ds.patterns, station_id, current_hour)
        severity == IF current_length > 8 THEN "critical"
                    ELSE IF current_length > 6 THEN "high" ELSE "medium"
    IN  The({ IF predicted_peak > current_length + 3
              THEN Emit(d, Alert("Predicted Queue Congestion", station_id,
                                 "None", "None", "medium"))
              ELSE d
              : d \in { IF current_length > queue_length_alert
                        THEN Emit(ds, [Alert("Long Queue Alert", station_id,
                                             "None", "None", severity)
                                          EXCEPT !.current_queue_length =
                                                     current_length])
                        ELSE ds } })

RECURSIVE QueueLoop(_, _, _, _)
QueueLoop(ds, stations, recent, current_hour) ==
    IF stations = <<>> THEN ds
    ELSE The({ QueueLoop(QueueStep(d, Head(stations), recent, current_hour),
                         Tail(stations), recent, current_hour)
                   : d \in {ds} })

detect_long_queues_and_forecast(ds) ==
    IF ds.raised THEN ds
    ELSE The({
        IF SumCounts(LastN(LastN(queue_data, 20), 10)) > 20
        THEN Emit(d, Alert("System-wide Queue Congestion", "None", "None",
                           "None", "high"))
        ELSE d
        : d \in { QueueLoop([ds EXCEPT !.patterns =
                                 UpdatePatterns(@, LastN(queue_data, 20))],
                            StationsOf(LastN(LastN(queue_data, 20), 10)),
                            LastN(LastN(queue_data, 20), 10),
                            HourOf(now)) } })

---------------------------------------------------------------------------
(* detect_intelligent_staffing_needs *)

efficiency_threshold == 60

\* .get('data', {}).get('average_dwell_time', 0)
DwellTime(queue_event) ==
    IF queue_event.average_dwell_time = NoNum THEN 0
    ELSE queue_event.average_dwell_time

MaxOf(S) == CHOOSE m \in S : \A x \in S : x <= m

\* station_metrics[station_id]['queue_length'] and ['wait_time'] after the
\* first loop: each the maximum over the station's samples, taken
\* separately
StationQueueLength(queue, station_id) ==
    MaxOf({ CustomerCount(queue[i]) :
                i \in { k \in 1..Len(queue) : queue[k].station_id = station_id } })

StationWaitTime(queue, station_id) ==
    MaxOf({ DwellTime(queue[i]) :
                i \in { k \in 1..Len(queue) : queue[k].station_id = station_id } })

\* calculate_efficiency_score(station_id) < threshold, for a threshold
\* strictly between 0 and 100: the score is 100 - 30 e/t - 10 (avg - 4),
\* the last term for avg > 4 only, with t = max(1, transaction_count) and
\* avg the mean of customer_flow; the inequality is multiplied by t and by
\* the length of customer_flow
EfficiencyBelow(station_id, threshold) ==
    /\ station_id \in DOMAIN station_analytics
    /\ LET station == station_analytics[station_id]
           t == Max(1, station.transaction_count)
           n == Max(1, Len(station.customer_flow))
           total == SumNat(station.customer_flow)
       IN  30 * station.error_count * n + 10 * Max(0, total - 4 * n) * t
               > (100 - threshold) * t * n

\* the body of the loop that generates the recommendations
StaffingStep(ds, station_id, queue) ==
    IF /\ StationQueueLength(queue, station_id) > 6
       /\ StationWaitTime(queue, station_id) > 400
    THEN Emit(ds, [Alert("Critical Staffing Need", station_id, "None",
                         "None", "high")
                      EXCEPT !.current_queue_length =
                                 StationQueueLength(queue, station_id)])
    ELSE IF EfficiencyBelow(station_id, efficiency_threshold)
    THEN Emit(ds, Alert("Station Performance Optimization", station_id,
                        "None", "None", "medium"))
    ELSE ds

RECURSIVE StaffingLoop(_, _, _)
StaffingLoop(ds, stations, queue) ==
    IF stations = <<>> THEN ds
    ELSE The({ StaffingLoop(StaffingStep(d, Head(stations), queue),
                            Tail(stations), queue)
               : d \in {ds} })

\* sum(metrics['queue_length'] * metrics['wait_time'] for ...)
RECURSIVE total_queue_pressure(_, _)
total_queue_pressure(stations, queue) ==
    IF stations = <<>> THEN 0
    ELSE StationQueueLength(queue, Head(stations))
             * StationWaitTime(queue, Head(stations))
         + total_queue_pressure(Tail(stations), queue)

\* predict_station_demand calls station_id.startswith, which raises for a
\* sample without station_id, before any candidate is generated
detect_intelligent_staffing_needs(ds) ==
    IF ds.raised THEN ds
    ELSE LET queue == LastN(queue_data, 20)
             stations == StationsOf(queue)
         IN  IF \E i \in 1..Len(stations) : stations[i] = "None"
             THEN [ds EXCEPT !.raised = TRUE]
             ELSE The({
                 IF total_queue_pressure(stations, queue) > 500
                 THEN Emit(d, Alert("System-wide Staffing Crisis", "None",
                                    "None", "None", "critical"))
                 ELSE d
                 : d \in { StaffingLoop(ds, stations, queue) } })

---------------------------------------------------------------------------
(* detect_sustainability_opportunities, for an empty queue buffer: every   *)
(* station has idle_periods 0, so none is a low-utilization station; no    *)
(* candidate is produced and no state changes.  The detection cycle below  *)
(* is enabled for an empty queue buffer only.                              *)

detect_sustainability_opportunities(ds) == ds

---------------------------------------------------------------------------
(* detect_normal_operations *)

\* The condition reads
\*   (status == 'Active' and price > 0 and customer_id and sku
\*        and customer_id not in profiles)
\*   or profiles[customer_id]['risk_score'] < 0.3
\* and the second operand, evaluated when the first is false, creates the
\* profile of customer_id (of None too).
NormalStep(ds, pos_event) ==
    LET customer_id == pos_event.customer_id
        clean == /\ pos_event.status = "Active"
                 /\ PriceIn(pos_event) > 0
                 /\ Truthy(customer_id)
                 /\ Truthy(pos_event.sku)
                 /\ ~ds.profiles[customer_id].present
        touched == IF clean THEN ds
                   ELSE [ds EXCEPT !.profiles = Touch(@, customer_id)]
        passes == clean \/ touched.profiles[customer_id].risk_score < 300
    IN  IF ds.raised THEN ds
        ELSE IF passes /\ touched.counter % 5 = 0
        THEN Emit(touched, Alert("Success Operation", pos_event.station_id,
                                 customer_id, pos_event.sku, "None"))
        ELSE touched

RECURSIVE NormalLoop(_, _)
NormalLoop(ds, pos) ==
    IF pos = <<>> THEN ds
    ELSE The({ NormalLoop(NormalStep(d, Head(pos)), Tail(pos)) : d \in {ds} })

detect_normal_operations(ds) ==
    IF ds.raised THEN ds ELSE NormalLoop(ds, LastN(pos_data, 20))

---------------------------------------------------------------------------
(* The detector chain of detect_all_events.  all_events.extend(detector()) *)
(* adds a detector's candidates when it returns; a detector that raises    *)
(* adds none, and the detectors after it do not run.  What a detector did  *)
(* to the profiles and the id counter before it raised stays done.         *)

Extend(before, after) ==
    The({ IF a.raised /\ ~before.raised
          THEN [a EXCEPT !.events = before.events]
          ELSE a : a \in {after} })

\* the k-th detector of the try block
Detector(k, ds) ==
    CASE k = 1 -> detect_scan_avoidance(ds)
      [] k = 2 -> detect_barcode_switching(ds)
      [] k = 3 -> detect_weight_discrepancies(ds)
      [] k = 4 -> detect_system_crashes(ds)
      [] k = 5 -> detect_long_queues_and_forecast(ds)
      [] k = 6 -> detect_theft_risk_patterns(ds)
      [] k = 7 -> detect_inventory_discrepancies_enhanced(ds)
      [] k = 8 -> detect_multi_station_coordinated_fraud(ds)
      [] k = 9 -> detect_intelligent_staffing_needs(ds)
      [] k = 10 -> detect_sustainability_opportunities(ds)
      [] k = 11 -> detect_normal_operations(ds)

RECURSIVE RunFrom(_, _)
RunFrom(ds, k) ==
    IF k > 11 THEN ds
    ELSE The({ RunFrom(Extend(d, Detector(k, d)), k + 1) : d \in {ds} })

RunDetectors == RunFrom(StartRun, 1)

---------------------------------------------------------------------------
(* The wall clock *)

Deltas == {60, 300}

Advance(d) ==
    /\ now + d <= StartTime + Horizon
    /\ now' = now + d
    /\ UNCHANGED <<ingest_vars, detector_vars, history_vars, demo, threads, recent_call>>

Tick == \E d \in Deltas : Advance(d)

\* the clock of the runs that feed the detectors: half-horizon steps
Sleep == Advance(Horizon \div 2)

---------------------------------------------------------------------------
(* detect_all_events, from the candidate list on: filtering, the history   *)
(* loop and the return value.  raised says that a detector raised, which   *)
(* the single try block turns into filtered_events = [].                   *)

CycleTail(all_events, raised) ==
    \E f \in { IF raised
                THEN [filtered |-> <<>>, windows |-> suppression_windows]
                ELSE apply_adaptive_filtering(all_events, now,
                                              suppression_windows) } :
    \E sink \in { AddToHistory(f.filtered, detected_events) } :
        /\ suppression_windows' = f.windows
        /\ detected_events' = sink
        /\ cycles' = cycles + 1
        /\ last_cycle' =
               [at |-> now, raised |-> raised, all_events |-> all_events,
                filtered_events |-> f.filtered,
                appended_events |->
                    SubSeq(sink, Len(detected_events) + 1, Len(sink)),
                profiles_before |-> customer_risk_profiles]

\* the candidates a detector run hands over: ids in generation order
RECURSIVE StampAll(_, _, _)
StampAll(protos, id, at) ==
    IF protos = <<>> THEN <<>>
    ELSE <<Stamp(Head(protos), id, at)>> \o StampAll(Tail(protos), id + 1, at)

(* Candidate lists of one cycle, each the output of the detectors over     *)
(* some buffer contents:                                                   *)
(*   - a High Theft Risk Alert (critical, no station_id) for a customer    *)
(*   - System Crash, high, for a station silent for 10 to 30 minutes       *)
(*   - System Crash, critical, for ten stations silent for over 30 minutes *)
(*   - Long Queue Alert, medium, for two stations with 5 or 6 waiting      *)
CrashStations == <<"S01", "S02", "S03", "S04", "S05",
                   "S06", "S07", "S08", "S09", "S10">>

TheftAlert(c) == Alert("High Theft Risk Alert", "None", c, "None", "critical")
CrashAlert(s, sev) == Alert("System Crash", s, "None", "None", sev)
QueueAlert(s, sev) == Alert("Long Queue Alert", s, "None", "None", sev)

CandidateLists ==
    { <<TheftAlert("C1")>>,
      <<TheftAlert("C2")>>,
      <<CrashAlert("SCC1", "high")>>,
      <<CrashAlert("RC1", "high")>>,
      [i \in 1..Len(CrashStations) |-> CrashAlert(CrashStations[i], "critical")],
      <<QueueAlert("SCC1", "medium"), QueueAlert("RC1", "medium")>> }

\* a detection cycle whose detectors produce the candidate list protos
CycleOver(protos) ==
    /\ cycles < MaxCycles
    /\ last_cycle.at < now
    /\ event_counter' = event_counter + Len(protos)
    /\ issued' = issued \cup (event_counter..(event_counter'-1))
    /\ CycleTail(StampAll(protos, event_counter, now), FALSE)
    /\ UNCHANGED <<customer_risk_profiles, active_risks, historical_patterns>>
    /\ UNCHANGED <<ingest_vars, now, lines_read, last_line, appended,
                   demo, threads, recent_call>>

CandidateCycle == \E protos \in CandidateLists : CycleOver(protos)

NextFilter ==
    \/ Tick
    \/ CandidateCycle

SpecFilter == Init /\ [][NextFilter]_vars

---------------------------------------------------------------------------
(* Detection cycles over a queue at SCC1 that changes length between       *)
(* cycles: the Long Queue Alert is medium for 6 waiting, high for 7 or 8   *)
(* and critical for more; in two of the lists other stations have queues   *)
(* of 6 or of 9 as well                                                    *)

QueueLists ==
    { <<QueueAlert("SCC1", "medium")>>,
      <<QueueAlert("SCC1", "high")>>,
      <<QueueAlert("SCC1", "critical"), QueueAlert("RC1", "medium"),
        QueueAlert("S01", "critical"), QueueAlert("S02", "medium")>>,
      <<QueueAlert("SCC1", "medium"), QueueAlert("RC1", "medium")>> }

QueueCycle == \E protos \in QueueLists : CycleOver(protos)

NextQueueAlerts ==
    \/ Tick
    \/ QueueCycle

SpecQueueAlerts == Init /\ [][NextQueueAlerts]_vars

---------------------------------------------------------------------------
(* A detection cycle over the buffers: detect_all_events *)

detect_all_events ==
    /\ cycles < MaxCycles
    /\ last_cycle.at < now
    /\ queue_data = <<>>
    /\ \E ds \in {RunDetectors} :
           /\ customer_risk_profiles' = ds.profiles
           /\ event_counter' = ds.counter
           /\ active_risks' = ds.active
           /\ historical_patterns' = ds.patterns
           /\ issued' = issued \cup (event_counter..(ds.counter - 1))
           /\ CycleTail(ds.events, ds.raised)
    /\ UNCHANGED <<ingest_vars, now, lines_read, last_line, appended,
                   demo, threads, recent_call>>

reset_detection_state ==
    /\ detected_events' = <<>>
    /\ event_counter' = 1
    /\ customer_risk_profiles' = [c \in ProfileKeys |-> NoProfile]
    /\ active_risks' = {}
    /\ suppression_windows' = [k \in {} |-> 0]
    /\ UNCHANGED <<ingest_vars, historical_patterns, now, history_vars,
                   demo, threads, recent_call>>

\* sensor lines of a well-formed feed, each stamped with the time it is
\* sent; one POS record and one RFID record carry no station_id
SensorLines(ts) ==
    { JsonObject("POS_Transactions",
                 PosRec("SCC1", "C", "C1", 126, 600, "Active", ts)),
      JsonObject("POS_Transactions",
                 PosRec("RC1", "B", "C2", 100, 2500, "Active", ts)),
      JsonObject("POS_Transactions",
                 PosRec("SCC1", "B", "C1", 200, 2500, "Active", ts)),
      JsonObject("RFID_data", RfidRec("SCC1", "B", "C1", "IN_SCAN_AREA", ts)),
      JsonObject("RFID_data", RfidRec("None", "B", "C1", "IN_SCAN_AREA", ts)),
      JsonObject("Product_recognition", RecogRec("SCC1", "A", "C1", ts)) }

SensorLine ==
    /\ lines_read < MaxSensorLines
    /\ \E line \in SensorLines(now) : StreamLine(line)

Next ==
    \/ start_processing
    \/ SensorLine
    \/ Sleep
    \/ detect_all_events
    \/ reset_detection_state

Spec == Init /\ [][Next]_vars

---------------------------------------------------------------------------
(* The demo harness, run_demo_enhanced.py: a scenario appends its records  *)
(* to the buffers directly (deque.append, no process_event) and then calls *)
(* one detector directly, outside detect_all_events.                       *)

\* scenarios one demo run plays
MaxScenarios == 3

NoBatch == [rfid |-> <<>>, pos |-> <<>>, recognition |-> <<>>, queue |-> <<>>]

\* a POS record as the demo writes it: no weight
DemoPos(station, sku, customer, price, status, ts) ==
    PosRec(station, sku, customer, NoNum, price, status, ts)

\* scenario_1: RFID reads without a POS scan
ScanBatches(ts) ==
    { [NoBatch EXCEPT !.rfid =
          <<RfidRec("SCO3", "B", "C1", "IN_SCAN_AREA", ts),
            RfidRec("SCO3", "C", "C1", "IN_SCAN_AREA", ts)>>],
      [NoBatch EXCEPT !.rfid =
          <<RfidRec("SCC1", "B", "C1", "IN_SCAN_AREA", ts)>>],
      [NoBatch EXCEPT !.rfid =
          <<RfidRec("SCC1", "A", "C2", "EXIT_GATE", ts)>>] }

\* scenario_2: a recognition record and a POS record
SwitchBatches(ts) ==
    { [NoBatch EXCEPT
          !.recognition = <<RecogRec("SCC1", "B", "C1", ts)>>,
          !.pos = <<DemoPos("SCC1", "A", "C1", 120, "Active", ts)>>],
      [NoBatch EXCEPT
          !.recognition = <<RecogRec("SCC1", "A", "C1", ts)>>,
          !.pos = <<DemoPos("SCC1", "B", "C1", 2500, "Active", ts)>>],
      [NoBatch EXCEPT
          !.recognition = <<RecogRec("SCC1", "B", "C2", ts)>>,
          !.pos = <<DemoPos("RC1", "A", "C2", 120, "Active", ts)>>],
      [NoBatch EXCEPT
          !.recognition = <<RecogRec("RC1", "C", "C2", ts)>>,
          !.pos = <<DemoPos("RC1", "A", "C2", 120, "Active", ts)>>] }

\* scenario_5: queue samples
QueueBatches(ts) ==
    { [NoBatch EXCEPT !.queue = <<QueueRec("RC1", 8, 420, ts),
                                  QueueRec("SCC1", 6, 380, ts)>>],
      [NoBatch EXCEPT !.queue = <<QueueRec("SCC1", 4, 100, ts)>>],
      [NoBatch EXCEPT !.queue = <<QueueRec("RC1", 5, 200, ts),
                                  QueueRec("RC1", 3, 100, ts)>>],
      [NoBatch EXCEPT !.queue = <<QueueRec("SCC1", 9, 700, ts)>>] }

\* scenario_7: sales and RFID detections of one SKU
InventoryBatches(ts) ==
    { [NoBatch EXCEPT
          !.pos = <<DemoPos("RC1", "B", "None", 2500, "None", ts),
                    DemoPos("SCC1", "B", "None", 2500, "None", ts)>>,
          !.rfid = <<RfidRec("RC1", "B", "None", "SCAN_AREA", ts),
                     RfidRec("SCC1", "B", "None", "SCAN_AREA", ts),
                     RfidRec("SCO2", "B", "None", "SCAN_AREA", ts),
                     RfidRec("SCO3", "B", "None", "SCAN_AREA", ts)>>],
      [NoBatch EXCEPT
          !.rfid = <<RfidRec("RC1", "C", "None", "SCAN_AREA", ts),
                     RfidRec("SCC1", "C", "None", "SCAN_AREA", ts),
                     RfidRec("SCO2", "C", "None", "SCAN_AREA", ts)>>],
      [NoBatch EXCEPT
          !.pos = <<DemoPos("RC1", "A", "None", 120, "None", ts)>>,
          !.rfid = <<RfidRec("RC1", "A", "None", "SCAN_AREA", ts)>>] }

\* scenario_8: transactions at several stations at the same time
FraudBatches(ts) ==
    { [NoBatch EXCEPT
          !.pos = <<DemoPos("SCC1", "B", "C1", 1500, "Active", ts),
                    DemoPos("SCO2", "B", "C2", 2800, "System Error", ts),
                    DemoPos("SCO3", "B", "C1", 1200, "Read Error", ts)>>],
      [NoBatch EXCEPT
          !.pos = <<DemoPos("SCC1", "B", "C1", 2500, "Active", ts),
                    DemoPos("SCO2", "B", "C2", 2500, "Read Error", ts)>>] }

\* for event in events: buffer.append(event), on a deque(maxlen=200)
RECURSIVE AppendAll(_, _)
AppendAll(buf, records) ==
    IF records = <<>> THEN buf
    ELSE AppendAll(DequeAppend(buf, Head(records), deque_maxlen),
                   Tail(records))

\* the first half of a scenario: its records go into the buffers
DemoAppend(k, batch) ==
    /\ demo.pc = 0
    /\ demo.runs < MaxScenarios
    /\ rfid_data' = AppendAll(rfid_data, batch.rfid)
    /\ pos_data' = AppendAll(pos_data, batch.pos)
    /\ product_recognition_data' =
           AppendAll(product_recognition_data, batch.recognition)
    /\ queue_data' = AppendAll(queue_data, batch.queue)
    /\ demo' = [demo EXCEPT !.pc = k, !.runs = @ + 1]
    /\ UNCHANGED <<is_running, inventory_data, station_analytics,
                   customer_patterns, data_quality_score, conn>>
    /\ UNCHANGED <<detector_vars, now, history_vars, threads, recent_call>>

scenario_1_scan_avoidance_ai ==
    \E batch \in ScanBatches(now) : DemoAppend(1, batch)

scenario_2_barcode_switching_ml ==
    \E batch \in SwitchBatches(now) : DemoAppend(2, batch)

scenario_5_predictive_queue_forecasting ==
    \E batch \in QueueBatches(now) : DemoAppend(5, batch)

scenario_7_inventory_intelligence ==
    \E batch \in InventoryBatches(now) : DemoAppend(7, batch)

scenario_8_coordinated_fraud_detection ==
    \E batch \in FraudBatches(now) : DemoAppend(8, batch)

\* the second half of a scenario: events = self.event_detector.detect_x()
DemoCall ==
    /\ demo.pc # 0
    /\ \E ds \in { Extend(StartRun, Detector(demo.pc, StartRun)) } :
           /\ customer_risk_profiles' = ds.profiles
           /\ event_counter' = ds.counter
           /\ active_risks' = ds.active
           /\ historical_patterns' = ds.patterns
           /\ issued' = issued \cup (event_counter..(ds.counter - 1))
           /\ demo' = [demo EXCEPT !.pc = 0, !.detector = demo.pc,
                                   !.events = ds.events,
                                   !.raised = ds.raised]
    /\ UNCHANGED <<ingest_vars, detected_events, suppression_windows, now,
                   lines_read, last_line, appended, cycles, last_cycle,
                   threads, recent_call>>

NextDemo ==
    \/ scenario_1_scan_avoidance_ai
    \/ scenario_2_barcode_switching_ml
    \/ scenario_5_predictive_queue_forecasting
    \/ scenario_7_inventory_intelligence
    \/ scenario_8_coordinated_fraud_detection
    \/ DemoCall

SpecDemo == Init /\ [][NextDemo]_vars

---------------------------------------------------------------------------
(* The demo's scenario 6: the profile of a customer is written, POS        *)
(* records are appended and the theft risk detector is called.  The first  *)
(* profile and the first batch are the scenario's own (risk 0.85 with 5    *)
(* anomalies; 2500 and 1800 at two stations).                              *)

TheftProfiles ==
    { [present |-> TRUE, risk_score |-> 850, anomaly_count |-> 5],
      [present |-> TRUE, risk_score |-> 700, anomaly_count |-> 12],
      [present |-> TRUE, risk_score |-> 710, anomaly_count |-> 12] }

\* n records of a customer, of one price, the i-th at station i mod k
TheftRecords(n, k, customer, price, ts) ==
    [i \in 1..n |->
        DemoPos(<<"SCC1", "SCO2", "SCO3", "RC1", "RC2">>[(i % k) + 1], "B",
                customer, price, "Active", ts)]

TheftBatches(ts) ==
    { [NoBatch EXCEPT
          !.pos = <<DemoPos("SCC1", "B", "C1", 2500, "Active", ts),
                    DemoPos("SCO2", "B", "C1", 1800, "Active", ts)>>],
      [NoBatch EXCEPT !.pos = TheftRecords(11, 5, "C1", 500, ts)],
      [NoBatch EXCEPT !.pos = TheftRecords(16, 2, "C1", 100, ts)],
      [NoBatch EXCEPT !.pos = TheftRecords(15, 1, "C2", 100, ts)] }

scenario_6_theft_risk_scoring ==
    \E profile \in TheftProfiles, batch \in TheftBatches(now) :
        /\ demo.pc = 0
        /\ demo.runs < MaxScenarios
        /\ customer_risk_profiles' =
               [customer_risk_profiles EXCEPT !["C1"] = profile]
        /\ pos_data' = AppendAll(pos_data, batch.pos)
        /\ demo' = [demo EXCEPT !.pc = 6, !.runs = @ + 1]
        /\ UNCHANGED <<is_running, rfid_data, product_recognition_data,
                       queue_data, inventory_data, station_analytics,
                       customer_patterns, data_quality_score, conn>>
        /\ UNCHANGED <<detected_events, event_counter, suppression_windows,
                       active_risks, historical_patterns, now, history_vars,
                       threads, recent_call>>

NextTheft ==
    \/ scenario_6_theft_risk_scoring
    \/ DemoCall

SpecTheft == Init /\ [][NextTheft]_vars

---------------------------------------------------------------------------
(* The demo's scenario 9: queue samples are appended and the staffing      *)
(* detector is called.  The POS records the scenario appends as well only  *)
(* feed utilization_rate, which no alert condition reads; they are left    *)
(* out.  The first batch is the scenario's own (9 waiting 650 s, 7 waiting *)
(* 580 s); the others are single samples of one station.                   *)

StaffingBatches(ts) ==
    { [NoBatch EXCEPT !.queue = <<QueueRec("SCC1", 9, 650, ts),
                                  QueueRec("RC1", 7, 580, ts)>>],
      [NoBatch EXCEPT !.queue = <<QueueRec("SCC1", 8, 100, ts)>>],
      [NoBatch EXCEPT !.queue = <<QueueRec("SCC1", 3, 700, ts)>>],
      [NoBatch EXCEPT !.queue = <<QueueRec("RC1", 2, 30, ts)>>] }

scenario_9_intelligent_staffing ==
    \E batch \in StaffingBatches(now) : DemoAppend(9, batch)

NextStaffing ==
    \/ scenario_5_predictive_queue_forecasting
    \/ scenario_9_intelligent_staffing
    \/ DemoCall

SpecStaffing == Init /\ [][NextStaffing]_vars

---------------------------------------------------------------------------
(* The queue detector over a queue buffer that is read again and again:   *)
(* the monitoring loop calls detect_all_events every ten seconds whether  *)
(* or not a queue record has arrived in between, and                      *)
(* reset_detection_state may be called between two cycles.  Of the        *)
(* detectors of a cycle only detect_long_queues_and_forecast reads and    *)
(* writes historical_patterns, so a cycle is followed here through that   *)
(* detector.                                                              *)

\* the state of a detector as EventDetector.__init__ leaves it
FreshRun ==
    [events |-> <<>>, profiles |-> [c \in ProfileKeys |-> NoProfile],
     counter |-> 1, active |-> {}, patterns |-> NoPatterns, raised |-> FALSE]

\* detect_long_queues_and_forecast called by the next cycle, on the
\* detector as it is and on a freshly constructed one, over the buffers
\* as they are
ForecastNow == Extend(StartRun, Detector(5, StartRun))
ForecastFresh == Extend(FreshRun, Detector(5, FreshRun))

\* a further cycle reaches detect_long_queues_and_forecast and no queue
\* record has arrived since the last call
FurtherCycle ==
    /\ demo.pc = 0
    /\ demo.detector = 5
    /\ demo.runs < MaxScenarios
    /\ \E ds \in { ForecastNow } :
           /\ customer_risk_profiles' = ds.profiles
           /\ event_counter' = ds.counter
           /\ active_risks' = ds.active
           /\ historical_patterns' = ds.patterns
           /\ issued' = issued \cup (event_counter..(ds.counter - 1))
           /\ demo' = [demo EXCEPT !.runs = @ + 1, !.events = ds.events,
                                   !.raised = ds.raised]
    /\ UNCHANGED <<ingest_vars, detected_events, suppression_windows, now,
                   lines_read, last_line, appended, cycles, last_cycle,
                   threads, recent_call>>

NextHistory ==
    \/ scenario_5_predictive_queue_forecasting
    \/ DemoCall
    \/ FurtherCycle
    \/ reset_detection_state

SpecHistory == Init /\ [][NextHistory]_vars

---------------------------------------------------------------------------
(* Detection cycles over POS records whose timestamp cannot be parsed     *)
(* (the key is absent, so datetime.fromisoformat('') fails).              *)

\* lines of such a feed in one run
MaxTimestampLines == 3

TimestampLines(ts) ==
    { JsonObject("POS_Transactions",
                 PosRec("SCC1", "A", "C1", 100, 120, "Active", ts)),
      JsonObject("POS_Transactions",
                 PosRec("SCC1", "A", "C1", 100, 120, "Read Error", NoNum)),
      JsonObject("POS_Transactions",
                 PosRec("RC1", "A", "C2", 100, 120, "Active", NoNum)) }

TimestampLine ==
    /\ lines_read < MaxTimestampLines
    /\ \E line \in TimestampLines(now) : StreamLine(line)

NextTimestamps ==
    \/ start_processing
    \/ TimestampLine
    \/ Sleep
    \/ detect_all_events

SpecTimestamps == Init /\ [][NextTimestamps]_vars

---------------------------------------------------------------------------
(* Detection cycles over the POS records of two stations: SCC1, whose      *)
(* records are a replay stamped ReplayLag seconds in the past, and RC1,    *)
(* whose records are stamped with the current time; each sends records of  *)
(* status Active and of status Read Error                                  *)

MaxHealthLines == 3
ReplayLag == 1500

HealthLines(ts) ==
    { JsonObject("POS_Transactions",
                 PosRec("SCC1", "A", "C1", 100, 120, "Active",
                        ts - ReplayLag)),
      JsonObject("POS_Transactions",
                 PosRec("SCC1", "A", "C1", 100, 120, "Read Error",
                        ts - ReplayLag)),
      JsonObject("POS_Transactions",
                 PosRec("RC1", "A", "C2", 100, 120, "Active", ts)),
      JsonObject("POS_Transactions",
                 PosRec("RC1", "A", "C2", 100, 120, "Read Error", ts)) }

HealthLine ==
    /\ lines_read < MaxHealthLines
    /\ \E line \in HealthLines(now) : StreamLine(line)

NextHealth ==
    \/ start_processing
    \/ HealthLine
    \/ Sleep
    \/ detect_all_events

SpecHealth == Init /\ [][NextHealth]_vars

---------------------------------------------------------------------------
(* Detection cycles over records that name a product the catalog does not *)
(* hold: SKU "X" is no key of products_db.                                *)

\* lines of such a feed in one run
MaxCatalogLines == 3

CatalogLines(ts) ==
    { JsonObject("POS_Transactions",
                 PosRec("SCC1", "X", "C2", 126, 600, "Active", ts)),
      JsonObject("POS_Transactions",
                 PosRec("SCC1", "A", "C2", 100, 120, "Active", ts)),
      JsonObject("RFID_data", RfidRec("SCC1", "X", "C2", "IN_SCAN_AREA", ts)),
      JsonObject("Product_recognition", RecogRec("SCC1", "X", "C2", ts)),
      JsonObject("Product_recognition", RecogRec("SCC1", "B", "C2", ts)),
      JsonObject("RFID_POS_audit",
                 PosRec("SCC1", "X", "C2", 126, 600, "Active", ts)) }

CatalogLine ==
    /\ lines_read < MaxCatalogLines
    /\ \E line \in CatalogLines(now) : StreamLine(line)

NextCatalog ==
    \/ start_processing
    \/ CatalogLine
    \/ Sleep
    \/ detect_all_events

SpecCatalog == Init /\ [][NextCatalog]_vars

---------------------------------------------------------------------------
(* get_recent_data called on its own: on any of the four buffers, as the   *)
(* feed has filled them, with any count from 0 up                         *)

\* the largest count a call is given
MaxCount == 3

RecentDataCall ==
    /\ \E b \in BufferNames, count \in 0..MaxCount :
           recent_call' =
               [called |-> TRUE, buffer |-> b,
                data_collection |-> Buffers[b], count |-> count,
                result |-> get_recent_data(Buffers[b], count)]
    /\ UNCHANGED <<ingest_vars, detector_vars, now, history_vars, demo,
                   threads>>

NextRecent ==
    \/ start_processing
    \/ FeedLine
    \/ RecentDataCall

SpecRecent == Init /\ [][NextRecent]_vars

---------------------------------------------------------------------------
(* main.py: the main thread runs start_system, the monitoring loop with   *)
(* check_for_events and print_status, generate_final_report and, in the   *)
(* finally clause, stop_system, while the daemon thread started by        *)
(* start_processing runs connect_to_stream.  Nothing in the program locks *)
(* the buffers, so the steps of the two threads interleave: one detector  *)
(* call is one step of the main thread, and process_event is two steps of *)
(* the ingestion thread, the append and the rest.                         *)

\* lines the feed delivers in one run of main()
MaxThreadLines == 3

ThreadLines(ts) ==
    { JsonObject("POS_Transactions",
                 PosRec("SCC1", "C", "C1", 126, 600, "Active", ts)),
      JsonObject("RFID_data", RfidRec("SCC1", "B", "C1", "IN_SCAN_AREA", ts)) }

\* start_system: start_processing sets is_running and starts the thread
start_system ==
    /\ threads.pc = "init"
    /\ conn = "idle"
    /\ is_running' = TRUE
    /\ conn' = "open"
    /\ threads' = [threads EXCEPT !.pc = "monitor"]
    /\ UNCHANGED <<rfid_data, pos_data, product_recognition_data, queue_data,
                   inventory_data, station_analytics, customer_patterns,
                   data_quality_score>>
    /\ UNCHANGED <<detector_vars, now, history_vars, demo, recent_call>>

\* process_event up to and including buffer.append(event_data)
ProcessEventAppend(line) ==
    /\ conn = "open"
    /\ is_running
    /\ ~threads.in_flight
    /\ lines_read < MaxThreadLines
    /\ lines_read' = lines_read + 1
    /\ \E route \in { Route(line.dataset) } :
           /\ rfid_data' = IF route = "rfid"
                           THEN DequeAppend(rfid_data, line.event,
                                            deque_maxlen)
                           ELSE rfid_data
           /\ pos_data' = IF route = "pos"
                          THEN DequeAppend(pos_data, line.event, deque_maxlen)
                          ELSE pos_data
           /\ appended' = [appended EXCEPT ![route] = Append(@, line.event)]
    /\ threads' = [threads EXCEPT !.in_flight = TRUE, !.line = line]
    /\ UNCHANGED <<is_running, product_recognition_data, queue_data,
                   inventory_data, station_analytics, customer_patterns,
                   data_quality_score, conn>>
    /\ UNCHANGED <<detector_vars, now, last_line, cycles, last_cycle, issued,
                   demo, recent_call>>

\* a buffer after "if len(buffer) > max_events: buffer.popleft()"
PopLeft(buf) == IF Len(buf) > max_events THEN Tail(buf) ELSE buf

\* the rest of process_event: the popleft, the print and update_analytics
ProcessEventFinish ==
    /\ threads.in_flight
    /\ \E route \in { Route(threads.line.dataset) } :
           /\ rfid_data' = IF route = "rfid" THEN PopLeft(rfid_data)
                           ELSE rfid_data
           /\ pos_data' = IF route = "pos" THEN PopLeft(pos_data)
                          ELSE pos_data
    /\ \E ua \in { update_analytics(threads.line.dataset,
                                    threads.line.event) } :
           /\ station_analytics' = ua.analytics
           /\ customer_patterns' = ua.patterns
           /\ data_quality_score' = ua.dq
    /\ last_line' = [line |-> threads.line, outcome |-> "processed"]
    /\ threads' = [threads EXCEPT !.in_flight = FALSE]
    /\ UNCHANGED <<is_running, product_recognition_data, queue_data,
                   inventory_data, conn>>
    /\ UNCHANGED <<detector_vars, now, lines_read, appended, cycles,
                   last_cycle, issued, demo, recent_call>>

\* "if not self.is_running: break" at the next line of the feed
StreamBreak ==
    /\ conn = "open"
    /\ ~is_running
    /\ ~threads.in_flight
    /\ ~threads.checked
    /\ conn' = "closed"
    /\ UNCHANGED <<is_running, rfid_data, pos_data, product_recognition_data,
                   queue_data, inventory_data, station_analytics,
                   customer_patterns, data_quality_score>>
    /\ UNCHANGED <<detector_vars, now, history_vars, demo, threads, recent_call>>

\* check_for_events enters detect_all_events: all_events = []
check_for_events ==
    /\ threads.pc = "monitor"
    /\ is_running
    /\ cycles < MaxCycles
    /\ threads' = [threads EXCEPT !.pc = "detect", !.k = 1,
                                  !.events = <<>>, !.raised = FALSE,
                                  !.snapshot = Buffers]
    /\ UNCHANGED <<ingest_vars, detector_vars, now, history_vars, demo, recent_call>>

\* all_events.extend(self.detect_x()): the k-th detector of the try block
\* reads the buffers as they are when it is called
DetectorCall ==
    /\ threads.pc = "detect"
    /\ threads.k <= 11
    /\ \E ds \in { Extend([StartRun EXCEPT !.events = threads.events,
                                           !.raised = threads.raised],
                          Detector(threads.k,
                                   [StartRun EXCEPT
                                       !.events = threads.events,
                                       !.raised = threads.raised])) } :
           /\ customer_risk_profiles' = ds.profiles
           /\ event_counter' = ds.counter
           /\ active_risks' = ds.active
           /\ historical_patterns' = ds.patterns
           /\ issued' = issued \cup (event_counter..(ds.counter - 1))
           /\ threads' = [threads EXCEPT !.k = @ + 1, !.events = ds.events,
                                         !.raised = ds.raised]
    /\ UNCHANGED <<ingest_vars, detected_events, suppression_windows, now,
                   lines_read, last_line, appended, cycles, last_cycle, demo, recent_call>>

\* the rest of detect_all_events: the filter and the history loop
DetectionReturns ==
    /\ threads.pc = "detect"
    /\ threads.k = 12
    /\ CycleTail(threads.events, threads.raised)
    /\ threads' = [threads EXCEPT !.pc = "status"]
    /\ UNCHANGED <<ingest_vars, event_counter, customer_risk_profiles,
                   active_risks, historical_patterns, now, lines_read,
                   last_line, appended, issued, demo, recent_call>>

\* get_current_status: the len() of every buffer
get_current_status == [b \in BufferNames |-> Len(Buffers[b])]

\* print_status of the monitoring loop
print_status ==
    /\ threads.pc = "status"
    /\ threads' = [threads EXCEPT !.pc = "monitor",
                                  !.status = get_current_status]
    /\ UNCHANGED <<ingest_vars, detector_vars, now, history_vars, demo, recent_call>>

\* a request to the API server, whose handler calls get_current_status
\* in its own thread
ApiStatus ==
    /\ threads.pc \notin {"init", "done"}
    /\ threads.status # get_current_status
    /\ threads' = [threads EXCEPT !.status = get_current_status]
    /\ UNCHANGED <<ingest_vars, detector_vars, now, history_vars, demo, recent_call>>

\* the monitoring loop ends at its head: the maximum duration is reached,
\* or Ctrl-C is pressed during time.sleep(1)
MonitoringEnds ==
    /\ threads.pc = "monitor"
    /\ threads' = [threads EXCEPT !.pc = "report"]
    /\ UNCHANGED <<ingest_vars, detector_vars, now, history_vars, demo, recent_call>>

\* Ctrl-C while check_for_events runs: KeyboardInterrupt is not an
\* Exception, so only run_monitoring_cycle catches it and the cycle in
\* flight is abandoned
KeyboardInterrupt ==
    /\ threads.pc \in {"detect", "status"}
    /\ threads' = [threads EXCEPT !.pc = "report"]
    /\ UNCHANGED <<ingest_vars, detector_vars, now, history_vars, demo, recent_call>>

\* generate_final_report: every alert of the sink is written to the file
generate_final_report ==
    /\ threads.pc = "report"
    /\ threads' = [threads EXCEPT
                      !.pc = "stop",
                      !.export = [written |-> TRUE,
                                  events |-> detected_events]]
    /\ UNCHANGED <<ingest_vars, detector_vars, now, history_vars, demo, recent_call>>

\* stop_system, in the finally clause of main()
stop_system ==
    /\ threads.pc = "stop"
    /\ is_running' = FALSE
    /\ threads' = [threads EXCEPT !.pc = "done"]
    /\ UNCHANGED <<rfid_data, pos_data, product_recognition_data, queue_data,
                   inventory_data, station_analytics, customer_patterns,
                   data_quality_score, conn>>
    /\ UNCHANGED <<detector_vars, now, history_vars, demo, recent_call>>

ThreadLine == \E line \in ThreadLines(now) : ProcessEventAppend(line)

NextThreads ==
    \/ start_system
    \/ ThreadLine
    \/ ProcessEventFinish
    \/ StreamBreak
    \/ check_for_events
    \/ DetectorCall
    \/ DetectionReturns
    \/ print_status
    \/ ApiStatus
    \/ MonitoringEnds
    \/ KeyboardInterrupt
    \/ generate_final_report
    \/ stop_system

SpecThreads == Init /\ [][NextThreads]_vars

---------------------------------------------------------------------------
(* connect_to_stream against stop_processing.  The loop body reads        *)
(* self.is_running at its head and calls process_event only after         *)
(* line.strip() and json.loads(line); stop_processing clears the flag and *)
(* returns without joining the thread.  Here the read of the flag and the *)
(* append are two steps of the ingestion thread, so the stop can fall     *)
(* between them.                                                          *)

\* "if not self.is_running: break" finds the flag set; the line is
\* stripped and parsed
IsRunningCheck(line) ==
    /\ conn = "open"
    /\ is_running
    /\ ~threads.in_flight
    /\ ~threads.checked
    /\ lines_read < MaxThreadLines
    /\ threads' = [threads EXCEPT !.checked = TRUE, !.line = line]
    /\ UNCHANGED <<ingest_vars, detector_vars, now, history_vars, demo,
                   recent_call>>

\* self.process_event(event) of the line that passed the check, up to
\* and including buffer.append(event_data)
ProcessCheckedEvent ==
    /\ threads.checked
    /\ lines_read' = lines_read + 1
    /\ \E route \in { Route(threads.line.dataset) } :
           /\ rfid_data' = IF route = "rfid"
                           THEN DequeAppend(rfid_data, threads.line.event,
                                            deque_maxlen)
                           ELSE rfid_data
           /\ pos_data' = IF route = "pos"
                          THEN DequeAppend(pos_data, threads.line.event,
                                           deque_maxlen)
                          ELSE pos_data
           /\ appended' = [appended EXCEPT
                              ![route] = Append(@, threads.line.event)]
    /\ threads' = [threads EXCEPT !.checked = FALSE, !.in_flight = TRUE]
    /\ UNCHANGED <<is_running, product_recognition_data, queue_data,
                   inventory_data, station_analytics, customer_patterns,
                   data_quality_score, conn>>
    /\ UNCHANGED <<detector_vars, now, last_line, cycles, last_cycle, issued,
                   demo, recent_call>>

\* lines the feed delivers while the system is being stopped
StopLines(ts) ==
    ThreadLines(ts) \cup
        { JsonObject("POS_Transactions",
                     PosRec("RC1", "A", "C2", 50, 150, "Active", ts)) }

CheckedLine == \E line \in StopLines(now) : IsRunningCheck(line)

NextStop ==
    \/ start_processing
    \/ CheckedLine
    \/ ProcessCheckedEvent
    \/ ProcessEventFinish
    \/ stop_processing
    \/ StreamBreak

SpecStop == Init /\ [][NextStop]_vars

---------------------------------------------------------------------------
(* run_monitoring_cycle called without max_duration_seconds and without   *)
(* Ctrl-C: the loop can end only at "if not self.data_processor           *)
(* .is_running".  The main thread is always scheduled again, which is the *)
(* weak fairness of its steps.                                            *)

\* the server closes the feed between two lines: the for loop of
\* connect_to_stream ends and the thread returns
FeedCloses ==
    /\ ~threads.in_flight
    /\ StreamEnd

\* one pass through the head of the while loop: leave it when the data
\* processor no longer runs; else check_for_events when ten seconds have
\* passed, or only time.sleep(1).  iteration is the parity of the passes
\* that only slept.
MonitoringLoop ==
    /\ threads.pc = "monitor"
    /\ IF ~is_running
       THEN /\ threads' = [threads EXCEPT !.pc = "report"]
            /\ UNCHANGED <<ingest_vars, detector_vars, now, history_vars,
                           demo, recent_call>>
       ELSE \/ check_for_events
            \/ /\ threads' = [threads EXCEPT !.iteration = 1 - @]
               /\ UNCHANGED <<ingest_vars, detector_vars, now, history_vars,
                              demo, recent_call>>

MainThread ==
    \/ MonitoringLoop
    \/ DetectorCall
    \/ DetectionReturns
    \/ print_status

NextMonitoring ==
    \/ start_system
    \/ ThreadLine
    \/ ProcessEventFinish
    \/ FeedCloses
    \/ MonitoringLoop
    \/ DetectorCall
    \/ DetectionReturns
    \/ print_status

SpecMonitoring == Init /\ [][NextMonitoring]_vars /\ WF_vars(MainThread)

---------------------------------------------------------------------------
(* Properties of the suppressor and the duplicate check *)

SinkIdx == 1..Len(detected_events)

\* the identity the specification gives an alert
Identity3(a, b) ==
    /\ a.event_name = b.event_name
    /\ a.station_id = b.station_id
    /\ a.customer_id = b.customer_id

Accepted(e) == \E i \in SinkIdx : detected_events[i].event_id = e.event_id

\* the alerts accepted before candidate e was generated
AcceptedBefore(e) ==
    { detected_events[i] : i \in { k \in SinkIdx :
                                     detected_events[k].event_id < e.event_id } }

LastCandidates == { last_cycle.all_events[i] :
                        i \in 1..Len(last_cycle.all_events) }

\* C2: of two submissions of the same (kind, station, customer) candidate
\* in two detection cycles less than 5 minutes apart, the alert sink never
\* holds both (the "not both" half of "exactly one is accepted").
C2_SameCandidateAcceptedOnce ==
    \A i, j \in SinkIdx :
        ( /\ i < j
          /\ Identity3(detected_events[i], detected_events[j])
          /\ detected_events[i].timestamp < detected_events[j].timestamp )
        => detected_events[j].timestamp - detected_events[i].timestamp
               >= dedup_seconds

\* C3: a critical candidate of the last cycle is in the alert sink, unless
\* an alert of identical (kind, station, customer) was accepted before it
\* within the last 5 minutes.
C3_CriticalAlwaysAccepted ==
    \A e \in LastCandidates :
        e.severity = "critical" =>
            \/ Accepted(e)
            \/ \E x \in AcceptedBefore(e) :
                   /\ Identity3(e, x)
                   /\ e.timestamp - x.timestamp < dedup_seconds

\* C4: a non-critical candidate of the last cycle that is no duplicate is
\* accepted exactly when every earlier accepted alert of its
\* (kind, severity) category lies at least the suppression window back
\* (10, 15, 30 minutes for high, medium, low); none at all counts as elapsed.
C4_AcceptedIffWindowElapsed ==
    \A e \in LastCandidates :
        ( /\ SeverityOf(e) # "critical"
          /\ ~ \E x \in AcceptedBefore(e) :
                   /\ Identity3(e, x)
                   /\ e.timestamp - x.timestamp < dedup_seconds )
        => ( Accepted(e) <=>
                 \A x \in AcceptedBefore(e) :
                     CategoryOf(x) = CategoryOf(e) =>
                         e.timestamp - x.timestamp
                             >= suppression_minutes(SeverityOf(e)) * 60 )

---------------------------------------------------------------------------
(* Properties of the ingestion loop *)

\* C1: after any number of process_event calls routed to a buffer, the
\* buffer holds exactly the most recently appended records, at most the
\* capacity max_events of them, in arrival order; older ones are evicted.
C1_BufferHoldsMostRecent ==
    /\ rfid_data = LastN(appended["rfid"], max_events)
    /\ pos_data = LastN(appended["pos"], max_events)
    /\ product_recognition_data = LastN(appended["recognition"], max_events)
    /\ queue_data = LastN(appended["queue"], max_events)

\* a buffer that has taken capacity + 2 records and evicted the oldest two
C1_EvictedTwo ==
    /\ Len(appended["rfid"]) = max_events + 2
    /\ Len(rfid_data) = max_events
    /\ rfid_data[1] # appended["rfid"][1]

\* a line the feed contract calls malformed: not JSON, JSON that is no
\* object, or an object without its dataset tag or its event object
Malformed(line) ==
    \/ line.text = "garbage"
    \/ /\ line.text = "json"
       /\ \/ ~line.is_object
          \/ line.dataset \in {"", JNull}
          \/ ~line.event_present
          \/ ~line.event.is_dict

\* C9: a malformed line read by the running loop changes no buffer and
\* leaves the loop reading.
C9_MalformedLineSkipped ==
    [][ ( /\ lines_read' = lines_read + 1
          /\ is_running
          /\ Malformed(last_line'.line) )
        => ( /\ UNCHANGED <<rfid_data, pos_data, product_recognition_data,
                            queue_data>>
             /\ conn' = "open" ) ]_vars

---------------------------------------------------------------------------
(* Properties of the detection cycle over the buffers *)

\* C5: every customer's risk_score lies in [0, 1].
C5_RiskScoreInUnitInterval ==
    \A c \in ProfileKeys :
        /\ customer_risk_profiles[c].risk_score >= 0
        /\ customer_risk_profiles[c].risk_score <= 1000

\* C6: no step other than reset_detection_state lowers a customer's
\* risk_score.
C6_RiskNeverDecreases ==
    [][ \/ reset_detection_state
        \/ \A c \in ProfileKeys :
               customer_risk_profiles'[c].risk_score
                   >= customer_risk_profiles[c].risk_score ]_vars

\* the risk score a customer had when the last cycle started (0.3 is what
\* detect_scan_avoidance takes for a customer without a profile)
RiskAtCycleStart(c) ==
    IF last_cycle.profiles_before[c].present
    THEN last_cycle.profiles_before[c].risk_score
    ELSE 300

\* C7: the risk factor a Scanner Avoidance candidate was scored with is
\* the customer's risk score from the start of the cycle, not one changed
\* during the cycle.
C7_DetectorsReadCycleStartRisk ==
    \A e \in LastCandidates :
        e.event_name = "Scanner Avoidance"
            => e.risk_factor = RiskAtCycleStart(e.customer_id)

\* C8: in every detection cycle, also one in which a detector raises, a
\* weight discrepancy in the POS window ends up as a Weight Discrepancy
\* alert in the alert sink.
C8_OtherDetectorsStillRun ==
    [][ cycles' = cycles + 1
        => \A i \in 1..Len(LastN(pos_data, 20)) :
               WeightFires(LastN(pos_data, 20)[i])
                   => \E k \in 1..Len(detected_events') :
                          detected_events'[k].event_name
                              = "Weight Discrepancy" ]_vars

\* C10: in a cycle in which no detector raises, every POS record of the
\* window whose SKU is in the catalog with unit weight W > 0 and tolerance
\* T has a Weight Discrepancy candidate exactly when |actual - W| / W > T.
C10_WeightFiresIffOverTolerance ==
    [][ (cycles' = cycles + 1 /\ ~last_cycle'.raised)
        => \A i \in 1..Len(LastN(pos_data, 20)) :
               LET r == LastN(pos_data, 20)[i]
               IN  (r.sku \in CatalogSKUs /\ products_db[r.sku].weight > 0)
                   => ( WeightDifference(ActualWeight(r),
                                         products_db[r.sku].weight)
                            > WeightTolerance(products_db[r.sku])
                        <=> \E k \in 1..Len(last_cycle'.all_events) :
                                LET e == last_cycle'.all_events[k]
                                IN  /\ e.event_name = "Weight Discrepancy"
                                    /\ e.station_id = r.station_id
                                    /\ e.customer_id = r.customer_id
                                    /\ e.SKU = r.sku ) ]_vars

---------------------------------------------------------------------------
(* Properties of single detectors, called as the demo scenarios call them *)

\* the step in which the demo's call of detector k returns
DemoReturns(k) == demo.pc = k /\ demo'.pc = 0 /\ ~demo'.raised

\* an RFID read in the scan area with a SKU and without a POS record of
\* the same station, customer and SKU in the window
Unscanned(r) ==
    /\ r.location = "IN_SCAN_AREA"
    /\ Truthy(r.sku)
    /\ ~ \E j \in 1..Len(LastN(pos_data, 50)) :
            /\ LastN(pos_data, 50)[j].station_id = r.station_id
            /\ LastN(pos_data, 50)[j].customer_id = r.customer_id
            /\ LastN(pos_data, 50)[j].sku = r.sku

\* C11: when detect_scan_avoidance returns, every unscanned read of the
\* RFID window has its own Scanner Avoidance alert naming its station and
\* SKU (as many alerts for a station and SKU as there are unscanned reads
\* of them), whether or not the customer has a risk profile.
C11_UnscannedReadAlerted ==
    [][ DemoReturns(1)
        => \A i \in 1..Len(LastN(rfid_data, 50)) :
               LET r == LastN(rfid_data, 50)[i]
               IN  Unscanned(r)
                   => Len(SelectSeq(demo'.events, LAMBDA e :
                              /\ e.event_name = "Scanner Avoidance"
                              /\ e.station_id = r.station_id
                              /\ e.SKU = r.sku))
                      = Len(SelectSeq(LastN(rfid_data, 50), LAMBDA x :
                                /\ Unscanned(x)
                                /\ x.station_id = r.station_id
                                /\ x.sku = r.sku)) ]_vars

\* a recognition record and a POS record of the same station and customer
\* whose catalog prices R and S have R - S > 200 and R > 2 * S
SubstantialSwitch(rec, p) ==
    /\ rec.station_id = p.station_id
    /\ rec.customer_id = p.customer_id
    /\ rec.sku \in CatalogSKUs
    /\ p.sku \in CatalogSKUs
    /\ PriceOf(rec.sku) - PriceOf(p.sku) > 200
    /\ PriceOf(rec.sku) > 2 * PriceOf(p.sku)

\* the Barcode Switching alerts among events for a pair of records
SwitchAlerts(events, rec, p) ==
    SelectSeq(events, LAMBDA e :
        /\ e.event_name = "Barcode Switching"
        /\ e.station_id = rec.station_id
        /\ e.customer_id = rec.customer_id
        /\ e.SKU = rec.sku
        /\ e.scanned_SKU = p.sku)

\* C12: when detect_barcode_switching returns, every pair of a recognition
\* record and a POS record of its windows at the same station and customer
\* with prices R substantially above S has exactly one Barcode Switching
\* alert of its own (as many alerts as there are pairs of equal records),
\* each carrying price_difference = R - S.
C12_SwitchAlertCarriesDifference ==
    [][ DemoReturns(2)
        => \A i \in 1..Len(LastN(product_recognition_data, 30)) :
           \A j \in 1..Len(LastN(pos_data, 30)) :
               LET rec == LastN(product_recognition_data, 30)[i]
                   p == LastN(pos_data, 30)[j]
                   alerts == SwitchAlerts(demo'.events, rec, p)
               IN  SubstantialSwitch(rec, p)
                   => /\ Len(alerts)
                          = Cardinality(
                              { <<k, l>> \in
                                  (1..Len(LastN(product_recognition_data, 30)))
                                  \X (1..Len(LastN(pos_data, 30))) :
                                  /\ LastN(product_recognition_data, 30)[k]
                                         = rec
                                  /\ LastN(pos_data, 30)[l] = p })
                      /\ \A a \in 1..Len(alerts) :
                             alerts[a].price_difference
                                 = PriceOf(rec.sku) - PriceOf(p.sku) ]_vars

\* the demo's scenario 2 has returned one alert with price_difference 2380
\* for recognized price 2500 and scanned price 120
C12_Difference2380 ==
    /\ demo.pc = 0
    /\ demo.detector = 2
    /\ \E a \in 1..Len(demo.events) :
           /\ demo.events[a].event_name = "Barcode Switching"
           /\ demo.events[a].price_difference = 2380
           /\ PriceOf(demo.events[a].SKU) = 2500
           /\ PriceOf(demo.events[a].scanned_SKU) = 120

\* the stations named by a sequence of records or alerts
StationSet(records) == { records[i].station_id : i \in 1..Len(records) }

\* the Long Queue Alerts among events for a station
LongQueueAlerts(events, station_id) ==
    SelectSeq(events, LAMBDA e : /\ e.event_name = "Long Queue Alert"
                                 /\ e.station_id = station_id)

\* C13: when detect_long_queues_and_forecast returns, a station has exactly
\* one Long Queue Alert if the most recent of its queue samples the
\* detector read has customer_count above queue_length_alert (4), and none
\* otherwise; for customer_count = 8 the alert's severity is high or
\* critical.
C13_LongQueueIffOverThreshold ==
    [][ DemoReturns(5)
        => \A s \in StationSet(queue_data) \cup StationSet(demo'.events) :
               LET samples == SelectSeq(LastN(LastN(queue_data, 20), 10),
                                        LAMBDA q : q.station_id = s)
                   over == /\ samples # <<>>
                           /\ CustomerCount(samples[Len(samples)])
                                  > queue_length_alert
                   alerts == LongQueueAlerts(demo'.events, s)
               IN  /\ Len(alerts) = IF over THEN 1 ELSE 0
                   /\ ( /\ over
                        /\ CustomerCount(samples[Len(samples)]) = 8 )
                      => alerts[1].severity \in {"high", "critical"} ]_vars

\* the demo's scenario 5 has returned a Long Queue Alert for a queue of 8,
\* and none for a station whose latest sample is at or below the threshold
\* after an earlier one above it
C13_QueueOfEightAlerted ==
    /\ demo.pc = 0
    /\ demo.detector = 5
    /\ \E a \in 1..Len(demo.events) :
           /\ demo.events[a].event_name = "Long Queue Alert"
           /\ demo.events[a].current_queue_length = 8
           /\ demo.events[a].severity = "high"
    /\ \E i, j \in 1..Len(queue_data) :
           /\ i < j
           /\ queue_data[i].station_id = queue_data[j].station_id
           /\ queue_data[i].customer_count > queue_length_alert
           /\ queue_data[j].customer_count <= queue_length_alert
           /\ \A k \in (j + 1)..Len(queue_data) :
                  queue_data[k].station_id # queue_data[j].station_id
           /\ LongQueueAlerts(demo.events, queue_data[j].station_id) = <<>>

\* the records of a window that carry a SKU
CountSku(records, sku) == Len(SelectSeq(records, LAMBDA r : r.sku = sku))

\* C14: when detect_inventory_discrepancies_enhanced returns, every catalog
\* SKU with more RFID detections R than recorded sales S in the evaluated
\* windows has an Advanced Inventory Discrepancy alert reporting
\* rfid_detections = R and sales_recorded = S.
C14_ExcessDetectionsAlerted ==
    [][ DemoReturns(7)
        => \A sku \in CatalogSKUs :
               LET R == CountSku(LastN(rfid_data, 100), sku)
                   S == CountSku(LastN(pos_data, 100), sku)
               IN  R > S
                   => \E a \in 1..Len(demo'.events) :
                          /\ demo'.events[a].event_name
                                 = "Advanced Inventory Discrepancy"
                          /\ demo'.events[a].SKU = sku
                          /\ demo'.events[a].rfid_detections = R
                          /\ demo'.events[a].sales_recorded = S ]_vars

\* the POS records of the window in time bucket b that show a high-value
\* transaction (price above 500) or an error status
Suspicious(b) ==
    SelectSeq(LastN(pos_data, 60), LAMBDA r :
        /\ r.timestamp # NoNum
        /\ r.timestamp \div 300 = b
        /\ (PriceIn(r) > 500 \/ NotActive(r)))

\* the indicator count contribution plus the normalized aggregate value of
\* the records of a time bucket, in thousandths: 0.25 per indicator plus
\* total value / 10000
IndicatorsPlusValue(b) ==
    LET records == SelectSeq(LastN(pos_data, 60), LAMBDA r :
                       r.timestamp # NoNum /\ r.timestamp \div 300 = b)
        stations == StationSet(records)
        at_station(st) == SelectSeq(records, LAMBDA r : r.station_id = st)
        indicators ==
            Cardinality({ st \in stations :
                            SumPrices(at_station(st)) > 2000 })
            + (IF Len(SelectSeq(records, LAMBDA r : PriceIn(r) > 500)) >= 5
               THEN 1 ELSE 0)
            + (IF Len(SelectSeq(records, NotActive)) >= 3 THEN 1 ELSE 0)
            + (IF Cardinality({ records[i].customer_id :
                                  i \in 1..Len(records) } \ {"None", ""})
                      < Cardinality(stations) * 2
               THEN 1 ELSE 0)
    IN  indicators * 250 + SumPrices(records) \div 10

\* C15: when detect_multi_station_coordinated_fraud returns, every 5-minute
\* bucket of its window in which three or more stations show high-value
\* transactions or error statuses has a Coordinated Multi-Station Fraud
\* alert of severity critical whose coordination score is the indicator
\* contribution plus the normalized aggregate value.
C15_CoordinatedFraudAlerted ==
    [][ DemoReturns(8)
        => \A i \in 1..Len(LastN(pos_data, 60)) :
               LET r == LastN(pos_data, 60)[i]
               IN  ( /\ r.timestamp # NoNum
                     /\ Cardinality(StationSet(
                            Suspicious(r.timestamp \div 300))) >= 3 )
                   => \E a \in 1..Len(demo'.events) :
                          /\ demo'.events[a].event_name
                                 = "Coordinated Multi-Station Fraud"
                          /\ demo'.events[a].severity = "critical"
                          /\ demo'.events[a].overall_coordination_score
                                 = IndicatorsPlusValue(r.timestamp \div 300)
      ]_vars

---------------------------------------------------------------------------
(* Properties of the alert ids and the alert sink *)

\* the ids generate_event_id returns in a step: the values the counter
\* passes through
IdsDrawn == event_counter..(event_counter' - 1)

\* C16: after every step the ids of the alerts in the sink are strictly
\* increasing in sink order, and no step draws an id that was issued
\* before, also after reset_detection_state.
C16_IdsMonotonicAndUnique ==
    [][ /\ \A i, j \in 1..Len(detected_events') :
               i < j => detected_events'[i].event_id
                            < detected_events'[j].event_id
        /\ \A id \in IdsDrawn : id \notin issued ]_vars

\* C17: a detection cycle leaves the alerts already in the sink unchanged
\* in content and order and only appends to its end.
C17_SinkAppendOnly ==
    [][ cycles' = cycles + 1
        => /\ Len(detected_events') >= Len(detected_events)
           /\ SubSeq(detected_events', 1, Len(detected_events))
                  = detected_events ]_vars

\* a cycle has appended to a sink that already held ten alerts of earlier
\* cycles
C17_AppendedToFullSink ==
    /\ cycles >= 2
    /\ last_cycle.appended_events # <<>>
    /\ Len(detected_events) - Len(last_cycle.appended_events) >= dedup_recent


---------------------------------------------------------------------------
(* Properties of the threads of main.py *)

\* the buffers the k-th detector of detect_all_events reads
DetectorReads(k) ==
    CASE k \in {1, 7} -> {"rfid", "pos"}
      [] k = 2 -> {"recognition", "pos"}
      [] k = 5 -> {"queue"}
      [] k \in {9, 10} -> {"pos", "queue"}
      [] OTHER -> {"pos"}

\* C18: every detector of one detection cycle evaluates the buffers as
\* they were when the cycle started; a record the ingestion thread appends
\* after the start of the cycle is in no buffer a detector of that cycle
\* reads.
C18_DetectorsReadCycleStartSnapshot ==
    [][ threads.pc = "detect" /\ threads'.k = threads.k + 1
        => \A b \in DetectorReads(threads.k) :
               Buffers[b] = threads.snapshot[b] ]_vars

\* C19: at every instant each source buffer holds at most max_events
\* records, also between the steps of a process_event call, and no
\* get_current_status call returns a size above max_events.
C19_BufferNeverOverCapacity ==
    \A b \in BufferNames :
        /\ Len(Buffers[b]) <= max_events
        /\ threads.status[b] <= max_events

\* C20: the final export is written only after ingestion has stopped
\* (is_running is False), it holds every alert of the sink, and from the
\* export on no buffer changes.
C20_ShutdownOrdered ==
    [][ /\ (~threads.export.written /\ threads'.export.written)
            => /\ ~is_running
               /\ threads'.export.events = detected_events'
        /\ threads.export.written
            => /\ Buffers' = Buffers
               /\ detected_events' = detected_events ]_vars


\* C21: once the feed connection has closed and connect_to_stream has
\* returned, the monitoring loop ends, also without a maximum duration.
C21_LoopEndsAfterStreamEnds ==
    (conn = "closed") ~> (threads.pc = "report")


---------------------------------------------------------------------------
(* Further properties of the duplicate check and the suppressor *)

LastFiltered == { last_cycle.filtered_events[i] :
                      i \in 1..Len(last_cycle.filtered_events) }

\* C22: a candidate that passed the suppressor and whose customer differs
\* from the customer of every alert of its kind accepted before it is no
\* duplicate: it is accepted.
C22_OtherCustomerIsNoDuplicate ==
    \A e \in LastFiltered :
        ( \A x \in AcceptedBefore(e) :
              x.event_name = e.event_name => x.customer_id # e.customer_id )
        => Accepted(e)


---------------------------------------------------------------------------
(* Properties of the risk profile store *)

\* C23: when detect_scan_avoidance scores an unscanned read of a customer
\* that has no risk profile, the risk it uses is the one it uses for a
\* stored zero-initialized profile, 0.
C23_AbsentProfileScoredAsZero ==
    [][ DemoReturns(1)
        => \A i \in 1..Len(LastN(rfid_data, 50)) :
               LET r == LastN(rfid_data, 50)[i]
                   c == r.customer_id
               IN  (Unscanned(r) /\ ~customer_risk_profiles[c].present)
                   => ScanRiskFactor(customer_risk_profiles, c)
                          = ScanRiskFactor([customer_risk_profiles EXCEPT
                                               ![c] = NewProfile], c) ]_vars


---------------------------------------------------------------------------
(* Properties of the catalog lookups *)

UnknownSku(records) ==
    \E i \in 1..Len(records) :
        Truthy(records[i].sku) /\ records[i].sku \notin CatalogSKUs

---------------------------------------------------------------------------
(* Properties of the timestamp handling *)

\* the records of a station in the health detector's window whose
\* timestamp parses
TimedRecords(station_id) ==
    SelectSeq(LastN(pos_data, 50),
              LAMBDA r : r.station_id = station_id /\ r.timestamp # NoNum)

\* C25: a detection cycle over records whose timestamp cannot be parsed
\* does not abort, and the health detector's transaction count and error
\* ratio are taken over the records with a parsable timestamp only: a
\* System Performance Degradation candidate for a station means that more
\* than 30% of the station's parsable records are errors.
C25_UnparsableTimestampExcluded ==
    [][ cycles' = cycles + 1
        => /\ ~last_cycle'.raised
           /\ \A i \in 1..Len(last_cycle'.all_events) :
                  LET e == last_cycle'.all_events[i]
                      timed == TimedRecords(e.station_id)
                  IN  e.event_name = "System Performance Degradation"
                      => 10 * Len(SelectSeq(timed, NotActive))
                             > 3 * Max(1, Len(timed)) ]_vars


\* C26: a detection cycle raises the risk score of a customer only when it
\* accepts an alert about that customer into the sink; candidates dropped
\* by suppression or deduplication leave every risk profile as it was.
C26_RiskRaisedOnlyByAcceptedAlert ==
    [][ cycles' = cycles + 1
        => \A c \in ProfileKeys :
               customer_risk_profiles'[c].risk_score
                   > customer_risk_profiles[c].risk_score
               => \E i \in 1..Len(last_cycle'.appended_events) :
                      last_cycle'.appended_events[i].customer_id = c ]_vars


---------------------------------------------------------------------------
(* Properties of the frame of ingestion *)

\* C27: processing a feed line leaves the risk profiles, the suppression
\* entries and the alert sink unchanged and changes at most one of the
\* four source buffers.
C27_IngestionLeavesDetectorState ==
    [][ lines_read' = lines_read + 1
        => /\ customer_risk_profiles' = customer_risk_profiles
           /\ suppression_windows' = suppression_windows
           /\ detected_events' = detected_events
           /\ Cardinality({ b \in BufferNames : Buffers'[b] # Buffers[b] })
                  <= 1 ]_vars

\* a line has been processed after a cycle that left an alert in the sink,
\* a suppression entry and a risk profile
C27_LineAfterCycle ==
    /\ detected_events # <<>>
    /\ DOMAIN suppression_windows # {}
    /\ \E c \in ProfileKeys : customer_risk_profiles[c].present
    /\ last_line.outcome = "processed"
    /\ last_line.line.event.timestamp > last_cycle.at


\* C28: a call of get_recent_data with a count >= 0 returns the
\* min(count, size) most recent records of the buffer in buffer order, also
\* for count = 0 and count = size, and leaves the buffer unchanged.
C28_RecentDataIsLastCount ==
    [][ recent_call' # recent_call
        => LET data == recent_call'.data_collection
               result == recent_call'.result
               size == Len(data)
           IN  /\ Len(result) = Min(recent_call'.count, size)
               /\ \A i \in 1..Len(result) :
                      result[i] = data[size - Len(result) + i]
               /\ Buffers' = Buffers
               /\ data = Buffers[recent_call'.buffer] ]_vars


\* C29: the suppression entry of a (kind, severity) category is the time
\* of the last alert of that category accepted into the alert sink; a
\* candidate that passes the suppression check and is then dropped as a
\* duplicate leaves the entry as it was.
C29_SuppressionEntryIsLastAccepted ==
    \A c \in DOMAIN suppression_windows :
        LET accepted == CategoryEvents(detected_events, c)
        IN  /\ accepted # <<>>
            /\ suppression_windows[c] = accepted[Len(accepted)].timestamp


\* C30: of the candidates of one detection cycle, every critical one passes
\* the suppressor, and of each non-critical (kind, severity) category at
\* most one passes, which is then the first of the category in detector
\* output order; nothing else is in the suppressor's output.
C30_FirstOfCategoryPasses ==
    (cycles > 0 /\ ~last_cycle.raised)
    => LET candidates == last_cycle.all_events
           passed == last_cycle.filtered_events
       IN  /\ \A i \in 1..Len(passed) :
                  \E j \in 1..Len(candidates) : passed[i] = candidates[j]
           /\ \A j \in 1..Len(candidates) :
                  LET c == CategoryOf(candidates[j])
                      of_category == CategoryEvents(candidates, c)
                      passed_of_category == CategoryEvents(passed, c)
                  IN  IF candidates[j].severity = "critical"
                      THEN passed_of_category = of_category
                      ELSE \/ passed_of_category = <<>>
                           \/ passed_of_category = <<of_category[1]>>

\* a cycle had two critical candidates and, between and after them, two
\* medium ones of one category whose suppression window had elapsed: both
\* critical ones and the first medium one passed
C30_FirstOfTwoPassed ==
    /\ cycles > 0
    /\ Len(last_cycle.all_events) = 4
    /\ last_cycle.all_events[1].severity = "critical"
    /\ last_cycle.all_events[3].severity = "critical"
    /\ last_cycle.all_events[2].severity = "medium"
    /\ CategoryOf(last_cycle.all_events[2]) = CategoryOf(last_cycle.all_events[4])
    /\ last_cycle.filtered_events =
           <<last_cycle.all_events[1], last_cycle.all_events[3],
             last_cycle.all_events[2]>>


\* the waiting customers of the stations, each station counted once with
\* its current queue length
RECURSIVE TotalCurrentLength(_, _)
TotalCurrentLength(stations, recent) ==
    IF stations = <<>> THEN 0
    ELSE CurrentLength(recent, Head(stations))
             + TotalCurrentLength(Tail(stations), recent)

\* C31: when detect_long_queues_and_forecast returns, it has produced a
\* System-wide Queue Congestion alert if and only if the waiting customers
\* summed across the stations, each station counted once with its current
\* queue length, exceed 20.
C31_SystemWideIffStationTotalOver ==
    [][ DemoReturns(5)
        => LET recent == LastN(LastN(queue_data, 20), 10)
           IN  (\E a \in 1..Len(demo'.events) :
                    demo'.events[a].event_name = "System-wide Queue Congestion")
               <=> TotalCurrentLength(StationsOf(recent), recent) > 20 ]_vars


\* C32: when detect_intelligent_staffing_needs returns, a station has a
\* Critical Staffing Need alert only if one of its queue samples the
\* detector read has customer_count above 6 and average_dwell_time above
\* 400 together.
C32_StaffingNeedFromOneSample ==
    [][ DemoReturns(9)
        => \A a \in 1..Len(demo'.events) :
               demo'.events[a].event_name = "Critical Staffing Need"
               => \E i \in 1..Len(LastN(queue_data, 20)) :
                      LET q == LastN(queue_data, 20)[i]
                      IN  /\ q.station_id = demo'.events[a].station_id
                          /\ CustomerCount(q) > 6
                          /\ DwellTime(q) > 400 ]_vars


\* the health alerts among events for a station
HealthAlerts(events, station_id) ==
    SelectSeq(events, LAMBDA e :
        /\ e.event_name \in {"System Crash", "System Performance Degradation"}
        /\ e.station_id = station_id)

SeverityRank(severity) ==
    CASE severity = "critical" -> 4
      [] severity = "high" -> 3
      [] severity = "medium" -> 2
      [] OTHER -> 1

\* C33: the candidates of a detection cycle hold at most one health alert
\* per station.  For a station whose latest POS record is more than 10
\* minutes old it is a System Crash, of severity critical beyond 30 minutes
\* and high otherwise; for any other station it is a System Performance
\* Degradation of severity medium if more than 0.3 of the station's records
\* have an error status, and there is none if not.  Every System Crash
\* ranks above every System Performance Degradation.
C33_OneHealthAlertPerStation ==
    [][ (cycles' = cycles + 1 /\ ~last_cycle'.raised)
        => LET pos == LastN(pos_data, 50)
               events == last_cycle'.all_events
           IN  /\ \A s \in StationSet(pos) \cup StationSet(events) :
                      LET records == SelectSeq(pos, LAMBDA r : r.station_id = s)
                          latest == MaxOf({ records[i].timestamp :
                                                i \in 1..Len(records) })
                          errors == Len(SelectSeq(records, LAMBDA r :
                                            r.status # "Active"))
                          alerts == HealthAlerts(events, s)
                      IN  IF s = "None" \/ records = <<>>
                          THEN alerts = <<>>
                          ELSE IF now - latest > 600
                          THEN /\ Len(alerts) = 1
                               /\ alerts[1].event_name = "System Crash"
                               /\ alerts[1].severity =
                                      IF now - latest > 1800 THEN "critical"
                                      ELSE "high"
                          ELSE IF 10 * errors > 3 * Len(records)
                          THEN /\ Len(alerts) = 1
                               /\ alerts[1].event_name =
                                      "System Performance Degradation"
                               /\ alerts[1].severity = "medium"
                          ELSE alerts = <<>>
               /\ \A a, b \in 1..Len(events) :
                      ( /\ events[a].event_name = "System Crash"
                        /\ events[b].event_name =
                               "System Performance Degradation" )
                      => SeverityRank(events[a].severity)
                             > SeverityRank(events[b].severity) ]_vars

\* a cycle has produced a critical System Crash for a station that also has
\* more than 0.3 error records, and a System Performance Degradation for
\* the other station
C33_CrashAndDegradation ==
    /\ cycles > 0
    /\ ~last_cycle.raised
    /\ \E a, b \in 1..Len(last_cycle.all_events) :
           /\ last_cycle.all_events[a].event_name = "System Crash"
           /\ last_cycle.all_events[a].severity = "critical"
           /\ last_cycle.all_events[a].station_id = "SCC1"
           /\ last_cycle.all_events[b].event_name =
                  "System Performance Degradation"
           /\ last_cycle.all_events[b].station_id = "RC1"
    /\ \E i \in 1..Len(pos_data) :
           pos_data[i].station_id = "SCC1" /\ pos_data[i].status = "Read Error"


\* the High Theft Risk Alerts among events for a customer
TheftAlerts(events, customer_id) ==
    SelectSeq(events, LAMBDA e : /\ e.event_name = "High Theft Risk Alert"
                                 /\ e.customer_id = customer_id)

\* C34: when detect_theft_risk_patterns returns, the overall_risk of every
\* customer (here times 150000) lies in [0, 1], and a customer has a High
\* Theft Risk Alert, of severity critical, if and only if the customer's
\* risk_score exceeds 0.7, the customer has a POS record among the last 30
\* and overall_risk exceeds 0.8; no customer has more than one.
C34_TheftAlertIffOverCutoffs ==
    [][ DemoReturns(6)
        => \A c \in ProfileKeys :
               LET profile == customer_risk_profiles[c]
                   recent_pos == SelectSeq(LastN(pos_data, 30),
                                           LAMBDA r : r.customer_id = c)
                   overall_risk == OverallRisk(profile, recent_pos)
                   alerts == TheftAlerts(demo'.events, c)
               IN  /\ 0 <= overall_risk /\ overall_risk <= 150000
                   /\ Len(alerts) <= 1
                   /\ Len(alerts) = 1
                          <=> ( /\ profile.present
                                /\ profile.risk_score > 700
                                /\ recent_pos # <<>>
                                /\ 10 * overall_risk > 8 * 150000 )
                   /\ \A a \in 1..Len(alerts) :
                          alerts[a].severity = "critical" ]_vars

\* the theft detector has returned an alert for a customer over both
\* cutoffs, whose 16 records at 100 each give velocity its full weight
C34_TheftAlertProduced ==
    /\ demo.pc = 0
    /\ demo.detector = 6
    /\ TheftAlerts(demo.events, "C1") # <<>>
    /\ Len(SelectSeq(LastN(pos_data, 30), LAMBDA r : r.customer_id = "C1")) > 15


\* a POS record for the station, customer and SKU of an RFID read, stamped
\* within 45 seconds of the read
ScannedInWindow(read, pos) ==
    \E i \in 1..Len(pos) :
        /\ pos[i].station_id = read.station_id
        /\ pos[i].customer_id = read.customer_id
        /\ pos[i].sku = read.sku
        /\ pos[i].timestamp # NoNum
        /\ Abs(pos[i].timestamp - read.timestamp) <= 45

\* C35: in a detection cycle, a read in the scan area whose confidence
\* reaches the threshold and which has no POS record for its station,
\* customer and SKU within 45 seconds of it gets a Scanner Avoidance alert:
\* a matching POS record outside the window does not prevent the alert.
C35_PosOutsideWindowDoesNotPrevent ==
    [][ (cycles' = cycles + 1 /\ ~last_cycle'.raised)
        => \A i \in 1..Len(LastN(rfid_data, 50)) :
               LET read == LastN(rfid_data, 50)[i]
                   sum == ConfidenceSum(
                              Min(1000, 2 * PriceOf(read.sku)),
                              ScanRiskFactor(customer_risk_profiles,
                                             read.customer_id),
                              IF StartsWithSCC(read.station_id)
                              THEN 800 ELSE 500,
                              700)
               IN  ( /\ read.location = "IN_SCAN_AREA"
                     /\ Truthy(read.sku)
                     /\ read.station_id # "None"
                     /\ sum >= 4 * scan_avoidance_confidence
                     /\ ~ScannedInWindow(read, LastN(pos_data, 50)) )
                   => \E a \in 1..Len(last_cycle'.all_events) :
                          LET e == last_cycle'.all_events[a]
                          IN  /\ e.event_name = "Scanner Avoidance"
                              /\ e.station_id = read.station_id
                              /\ e.customer_id = read.customer_id
                              /\ e.SKU = read.sku ]_vars


\* C36: when detect_barcode_switching returns, every Barcode Switching
\* alert carries a risk_score within [0, 1] (here in thousandths), whatever
\* the two catalog prices and the triggers are.
C36_SwitchRiskScoreInUnitInterval ==
    [][ DemoReturns(2)
        => \A a \in 1..Len(demo'.events) :
               demo'.events[a].event_name = "Barcode Switching"
               => /\ 0 <= demo'.events[a].risk_score
                  /\ demo'.events[a].risk_score <= 1000 ]_vars


\* C37: the alerts detect_all_events returns to its caller (filtered_events)
\* are exactly the alerts the cycle appended to the alert sink; an alert
\* dropped as a duplicate is not among them.
C37_ReturnedAreAppended ==
    cycles > 0 => last_cycle.filtered_events = last_cycle.appended_events

\* C38: once stop_processing has cleared the flag of a started ingestion
\* thread, no step appends a record to a source buffer
C38_NoAppendAfterStop ==
    [][(~is_running /\ conn # "idle") => appended' = appended]_vars

\* C39: in the state reset_detection_state leaves, the queue detector of
\* the next cycle produces the alerts and the detector state it produces
\* on a freshly constructed detector over the same buffers, and the reset
\* leaves the source buffers as they were
C39_ResetIsFresh ==
    [][reset_detection_state =>
           /\ (ForecastNow = ForecastFresh)'
           /\ Buffers' = Buffers]_vars

\* C40: a further call of the queue detector with no new queue record
\* leaves historical_patterns as it was
C40_SampleCountedOnce ==
    [][FurtherCycle => historical_patterns' = historical_patterns]_vars

====
